---------------------------- MODULE Spec2Model ----------------------------
(***************************************************************************)
(* Mediphant web backend: the shared in-process rate limiter, the bounded  *)
(* query-history store and the FAQ search service with its degrade-to-     *)
(* fallback behaviour, as implemented under src/.                          *)
(*                                                                         *)
(* Time is the value of Date.now(), counted in abstract clock units.       *)
(***************************************************************************)
EXTENDS Integers, Sequences, FiniteSets, TLC

VARIABLES
    now,        \* Date.now()
    requests,   \* RateLimiter.requests : Map<string, {count, resetTime}>
    rlTrace,    \* observed isAllowed calls: <<[key, at, allowed]>>
    rlLast,     \* the latest getRemaining call or sweep: [op, key, at, value]
    heap,       \* the QueryHistoryItem objects alive, by object identity
    history,    \* QueryHistoryStore.history : references into heap
    returned,   \* the array a caller of getRecentQueries holds (<<>> if none)
    nAdds,      \* number of addQuery calls so far (identity of the next item)
    sinceClear, \* number of addQuery calls since the last clearHistory
    lastAdd,    \* arguments of the most recent addQuery call (<<>> if none)
    env,        \* process.env: which API keys are set
    svc,        \* the FAQSearchService instances, by slot (0: a long-lived one)
    faq,        \* the handleFAQ / GET invocations in flight or just finished
    post,       \* the POST /api/interactions invocations, likewise
    warned      \* search() has logged 'Pinecone search failed, using fallback'

rlVars == <<requests, rlTrace, rlLast>>
histVars == <<heap, history, returned, nAdds, sinceClear, lastAdd>>
faqVars == <<env, svc, faq, post, warned>>
vars == <<now, requests, rlTrace, rlLast, heap, history, returned, nAdds,
          sinceClear, lastAdd, env, svc, faq, post, warned>>

-----------------------------------------------------------------------------
(* Bounds of the model *)

\* RateLimiter constructor arguments (the tests build limiters with small
\* windows and caps; the exported singleton uses 60000 ms and 100).
WindowMs == 2
MaxRequests == 2
\* Largest clock value reached by Tick.
MaxTime == 5
\* Number of isAllowed calls recorded in one behaviour.
MaxCalls == 4

\* Client identities (x-forwarded-for / x-real-ip / 'unknown').
Keys == {"ip1", "ip2"}

\* The handleFAQ / GET invocations that can be in flight together.
Slots == {1, 2}

\* A slot of svc that holds no instance.
NoService ==
    [constructed |-> FALSE, pinecone |-> FALSE, openai |-> FALSE,
     useFallback |-> FALSE]

\* A slot of faq that holds no invocation.
IdleCall ==
    [pc |-> "idle", http |-> FALSE, query |-> << >>, via |-> "none",
     matches |-> << >>, chat |-> "none", answer |-> << >>,
     outcome |-> "none", status |-> 0, retryAfter |-> 0]

\* A request body that has not been read.
NoBody == [json |-> FALSE, medA |-> << >>, medB |-> << >>]

\* A slot of post that holds no invocation.  ticket is the position in
\* rlTrace of the isAllowed call that admitted the invocation.
IdlePost ==
    [pc |-> "idle", body |-> NoBody, ticket |-> 0, status |-> 0,
     retryAfter |-> 0]

-----------------------------------------------------------------------------
(* RateLimiter *)

Min(a, b) == IF a < b THEN a ELSE b
Max(a, b) == IF a > b THEN a ELSE b

\* Mutant: the window counts as passed at the instant it ends.
Expired_AtBoundary(reqs, identifier, t) ==
    \/ identifier \notin DOMAIN reqs
    \/ t >= reqs[identifier].resetTime

\* !entry || now > entry.resetTime
Expired(reqs, identifier, t) ==
    \/ identifier \notin DOMAIN reqs
    \/ t > reqs[identifier].resetTime

\* this.requests.set(identifier, entry)
MapSet(reqs, identifier, entry) ==
    [k \in (DOMAIN reqs) \cup {identifier} |->
        IF k = identifier THEN entry ELSE reqs[k]]

\* Mutant: the cap test is > instead of >=, so one call too many is admitted.
isAllowed_CapOffByOne(reqs, identifier, t) ==
    IF Expired(reqs, identifier, t)
    THEN [allowed |-> TRUE,
          requests |-> MapSet(reqs, identifier,
                              [count |-> 1, resetTime |-> t + WindowMs])]
    ELSE IF reqs[identifier].count > MaxRequests
    THEN [allowed |-> FALSE, requests |-> reqs]
    ELSE [allowed |-> TRUE,
          requests |-> [reqs EXCEPT ![identifier].count = @ + 1]]

\* Mutant: the cap is tested before the expiry of the window, so a key that
\* is being denied stays denied after its window has passed.
isAllowed_CapBeforeExpiry(reqs, identifier, t) ==
    IF identifier \in DOMAIN reqs /\ reqs[identifier].count >= MaxRequests
    THEN [allowed |-> FALSE, requests |-> reqs]
    ELSE IF Expired(reqs, identifier, t)
    THEN [allowed |-> TRUE,
          requests |-> MapSet(reqs, identifier,
                              [count |-> 1, resetTime |-> t + WindowMs])]
    ELSE [allowed |-> TRUE,
          requests |-> [reqs EXCEPT ![identifier].count = @ + 1]]

\* Mutant: a denied call pushes the window forward (sliding penalty).
isAllowed_DenyExtends(reqs, identifier, t) ==
    IF Expired(reqs, identifier, t)
    THEN [allowed |-> TRUE,
          requests |-> MapSet(reqs, identifier,
                              [count |-> 1, resetTime |-> t + WindowMs])]
    ELSE IF reqs[identifier].count >= MaxRequests
    THEN [allowed |-> FALSE,
          requests |-> [reqs EXCEPT ![identifier].resetTime = t + WindowMs]]
    ELSE [allowed |-> TRUE,
          requests |-> [reqs EXCEPT ![identifier].count = @ + 1]]

\* Mutant: an admitted call inside a live window writes back the count
\* without the increment (a lost update).
isAllowed_LostUpdate(reqs, identifier, t) ==
    IF Expired(reqs, identifier, t)
    THEN [allowed |-> TRUE,
          requests |-> MapSet(reqs, identifier,
                              [count |-> 1, resetTime |-> t + WindowMs])]
    ELSE IF reqs[identifier].count >= MaxRequests
    THEN [allowed |-> FALSE, requests |-> reqs]
    ELSE [allowed |-> TRUE, requests |-> reqs]

\* Mutant: the cap is shared, so a key is refused as soon as any key is at
\* the cap.
isAllowed_SharedCap(reqs, identifier, t) ==
    IF Expired(reqs, identifier, t)
          /\ ~\E x \in DOMAIN reqs : reqs[x].count >= MaxRequests
    THEN [allowed |-> TRUE,
          requests |-> MapSet(reqs, identifier,
                              [count |-> 1, resetTime |-> t + WindowMs])]
    ELSE IF \E x \in DOMAIN reqs : reqs[x].count >= MaxRequests
    THEN [allowed |-> FALSE, requests |-> reqs]
    ELSE [allowed |-> TRUE,
          requests |-> [reqs EXCEPT ![identifier].count = @ + 1]]

\* RateLimiter.isAllowed: the value returned and the map it leaves, for a call
\* made at clock value t.
isAllowed(reqs, identifier, t) ==
    IF Expired(reqs, identifier, t)
    THEN [allowed |-> TRUE,
          requests |-> MapSet(reqs, identifier,
                              [count |-> 1, resetTime |-> t + WindowMs])]
    ELSE IF reqs[identifier].count >= MaxRequests
    THEN [allowed |-> FALSE, requests |-> reqs]
    ELSE [allowed |-> TRUE,
          requests |-> [reqs EXCEPT ![identifier].count = @ + 1]]

\* Mutant: getRemaining does not look at the expiry of the window.
getRemaining_NoExpiry(reqs, identifier, t) ==
    [value |-> IF identifier \notin DOMAIN reqs
               THEN MaxRequests
               ELSE Max(0, MaxRequests - reqs[identifier].count),
     requests |-> reqs]

\* RateLimiter.getRemaining: the value returned and the map it leaves, for a
\* call made at clock value t.
getRemaining(reqs, identifier, t) ==
    [value |-> IF Expired(reqs, identifier, t)
               THEN MaxRequests
               ELSE Max(0, MaxRequests - reqs[identifier].count),
     requests |-> reqs]

\* Mutant: the sweep uses >= and so also drops an entry at the very instant
\* its window ends, when isAllowed still counts against it.
cleanup_AtBoundary(reqs, t) ==
    [k \in {x \in DOMAIN reqs : ~(t >= reqs[x].resetTime)} |-> reqs[k]]

\* No getRemaining call or sweep has been observed yet.
NoReading == [op |-> "none", key |-> "", at |-> 0, value |-> 0]

\* Mutant: the sweep empties the map.
cleanup_DropsLive(reqs, t) == << >>

\* RateLimiter.cleanup: the map after one sweep at clock value t.
cleanup(reqs, t) ==
    [k \in {x \in DOMAIN reqs : ~(t > reqs[x].resetTime)} |-> reqs[k]]

-----------------------------------------------------------------------------
(* Rate limiter driven directly, as its unit tests drive it *)

InitBase ==
    /\ now = 0
    /\ requests = << >>
    /\ rlTrace = << >>
    /\ rlLast = NoReading
    /\ heap = << >>
    /\ history = << >>
    /\ returned = << >>
    /\ nAdds = 0
    /\ sinceClear = 0
    /\ lastAdd = << >>
    /\ svc = [i \in {0} \cup Slots |-> NoService]
    /\ faq = [r \in Slots |-> IdleCall]
    /\ post = [r \in Slots |-> IdlePost]
    /\ warned = FALSE

\* The process started without API keys.
Init ==
    /\ InitBase
    /\ env = [pineconeKey |-> FALSE, openaiKey |-> FALSE]

InitRL == Init

\* A caller invokes rateLimiter.isAllowed(k).
IsAllowedCall(k) ==
    /\ Len(rlTrace) < MaxCalls
    /\ LET r == isAllowed(requests, k, now) IN
        /\ requests' = r.requests
        /\ rlTrace' = Append(rlTrace,
                             [key |-> k, at |-> now, allowed |-> r.allowed])
    /\ UNCHANGED <<now, rlLast, histVars, faqVars>>

\* A caller invokes rateLimiter.getRemaining(k).
GetRemainingCall(k) ==
    /\ LET r == getRemaining(requests, k, now) IN
        /\ requests' = r.requests
        /\ rlLast' = [op |-> "getRemaining", key |-> k, at |-> now,
                      value |-> r.value]
    /\ UNCHANGED <<now, rlTrace, histVars, faqVars>>

\* The setInterval timer of the constructor fires.
Cleanup ==
    /\ requests' = cleanup(requests, now)
    /\ rlLast' = [op |-> "cleanup", key |-> "", at |-> now, value |-> 0]
    /\ UNCHANGED <<now, rlTrace, histVars, faqVars>>

\* The clock advances by one unit.
Tick ==
    /\ now < MaxTime
    /\ now' = now + 1
    /\ UNCHANGED <<rlVars, histVars, faqVars>>

NextRL ==
    \/ \E k \in Keys : IsAllowedCall(k)
    \/ \E k \in Keys : GetRemainingCall(k)
    \/ Cleanup
    \/ Tick

SpecRL == InitRL /\ [][NextRL]_vars

-----------------------------------------------------------------------------
(* Properties of the rate limiter *)

\* Positions of the calls on key k in the trace.
CallsOn(k) == {i \in 1..Len(rlTrace) : rlTrace[i].key = k}

\* Position of the first call on key k (the call that finds no entry for k).
FirstCallOn(k) == CHOOSE i \in CallsOn(k) : \A j \in CallsOn(k) : i <= j

\* Calls on k that fall inside the window opened by the first call on k.
InFirstWindow(k) ==
    {i \in CallsOn(k) :
        rlTrace[i].at <= rlTrace[FirstCallOn(k)].at + WindowMs}

\* C1: starting from no entry for k, among the calls on k that fall inside
\* the window opened by the first of them, exactly the first MaxRequests
\* return true and every further one returns false.
C1_FirstCapCallsAdmitted ==
    \A k \in Keys : \A i \in InFirstWindow(k) :
        rlTrace[i].allowed <=>
            Cardinality({j \in InFirstWindow(k) : j <= i}) <= MaxRequests

\* Some key has had more calls than the cap inside its first window: the
\* cap-th was admitted and a later one refused.
C1_Witness ==
    \E k \in Keys : \E i, j \in InFirstWindow(k) :
        /\ Cardinality({x \in InFirstWindow(k) : x <= i}) = MaxRequests
        /\ rlTrace[i].allowed
        /\ j > i
        /\ ~rlTrace[j].allowed

\* The step is a call of isAllowed on key k.
IsCallOn(k) ==
    /\ Len(rlTrace') = Len(rlTrace) + 1
    /\ rlTrace'[Len(rlTrace')].key = k

\* Clock value at which the current window of k was opened.
WindowOpenedAt(k) == requests[k].resetTime - WindowMs

\* C3 as stated: once WindowMs has elapsed since the current window of k was
\* opened, the next isAllowed(k) returns true and leaves count = 1 and
\* resetTime = now + WindowMs.
C3_Orig_ResetOnceWindowElapsed ==
    [][\A k \in DOMAIN requests :
        (IsCallOn(k) /\ now - WindowOpenedAt(k) >= WindowMs) =>
            /\ rlTrace'[Len(rlTrace')].allowed
            /\ requests'[k] = [count |-> 1, resetTime |-> now + WindowMs]
      ]_vars

\* C3 amended: once more than WindowMs has elapsed since the current window
\* of k was opened (now > resetTime), the next isAllowed(k) returns true
\* whatever the stored count, and leaves count = 1 and
\* resetTime = now + WindowMs.
C3_ResetAfterWindowPassed ==
    [][\A k \in DOMAIN requests :
        (IsCallOn(k) /\ now - WindowOpenedAt(k) > WindowMs) =>
            /\ rlTrace'[Len(rlTrace')].allowed
            /\ requests'[k] = [count |-> 1, resetTime |-> now + WindowMs]
      ]_vars

\* A key that was refused has been admitted again after its window passed,
\* and its entry is the fresh one written by that call.
C3_Witness ==
    \E i, j \in 1..Len(rlTrace) :
        /\ i < j
        /\ j = Len(rlTrace)
        /\ rlTrace[i].key = rlTrace[j].key
        /\ ~rlTrace[i].allowed
        /\ rlTrace[j].allowed
        /\ rlTrace[j].at > rlTrace[i].at
        /\ rlTrace[j].key \in DOMAIN requests
        /\ requests[rlTrace[j].key] =
              [count |-> 1, resetTime |-> rlTrace[j].at + WindowMs]

\* C7: a call of isAllowed that returns false leaves the whole map as it
\* was: no count is raised, no window extended, no other entry touched.
C7_DeniedCallMutatesNothing ==
    [][(/\ Len(rlTrace') = Len(rlTrace) + 1
        /\ ~rlTrace'[Len(rlTrace')].allowed) => requests' = requests]_vars

\* Two calls in a row on one key were refused, and the entry of that key is
\* still at the cap with the window the first admitted call gave it.
C7_Witness ==
    \E i \in 1..Len(rlTrace) - 1 :
        LET k == rlTrace[i].key IN
        /\ ~rlTrace[i].allowed
        /\ ~rlTrace[i + 1].allowed
        /\ rlTrace[i + 1].key = k
        /\ k \in DOMAIN requests
        /\ requests[k].count = MaxRequests
        /\ requests[k].resetTime = rlTrace[FirstCallOn(k)].at + WindowMs

-----------------------------------------------------------------------------
(* QueryHistoryStore *)

\* private readonly maxItems = 10
MaxItems == 10
\* Number of addQuery calls in one behaviour.
MaxAdds == 15
\* Number of addQuery calls in a behaviour in which callers keep and modify
\* the arrays getRecentQueries gave them.
MaxAliasAdds == 2

\* Arguments passed to addQuery (medA, medB, isPotentiallyRisky, reason).
RiskyArgs ==
    [medA |-> "warfarin", medB |-> "ibuprofen",
     isPotentiallyRisky |-> TRUE, reason |-> "increased bleeding risk"]

SafeArgs ==
    [medA |-> "aspirin", medB |-> "vitamins",
     isPotentiallyRisky |-> FALSE, reason |-> "no interaction"]

AddArgs == {RiskyArgs, SafeArgs}

\* The arguments of the k-th addQuery call when the store is filled in a
\* loop, as its unit tests fill it: they depend on the position of the call,
\* and two consecutive calls pass different arguments.
ArgsOfCall(k) == IF k % 2 = 1 THEN RiskyArgs ELSE SafeArgs

\* Values a caller writes into a field of an item it was handed.
TamperValues == {"tampered"}

Digit(d) == <<"0", "1", "2", "3", "4", "5", "6", "7", "8", "9">>[d + 1]

\* Number.prototype.toString of a non-negative integer: its decimal digits.
RECURSIVE NumberToString(_)
NumberToString(n) ==
    IF n < 10 THEN <<Digit(n)>> ELSE NumberToString(n \div 10) \o <<Digit(n % 10)>>

\* The object literal built by addQuery: Date.now() gave t for the id and
\* new Date(), evaluated later in the literal, gave t2 for the timestamp.
NewItem(args, t, t2) ==
    [id |-> NumberToString(t),
     medA |-> args.medA,
     medB |-> args.medB,
     isPotentiallyRisky |-> args.isPotentiallyRisky,
     reason |-> args.reason,
     timestamp |-> t2]

\* Array.prototype.unshift
Unshift(arr, x) == <<x>> \o arr

\* Array.prototype.slice(0, n)
SliceTo(arr, n) == SubSeq(arr, 1, Min(n, Len(arr)))

\* Mutant: the array is cut one element too late.
addQuery_SliceOffByOne(hist, ref) ==
    LET h == Unshift(hist, ref) IN
    IF Len(h) > MaxItems THEN SliceTo(h, MaxItems + 1) ELSE h

\* Mutant: the new item is pushed at the end and the front is dropped.
addQuery_Push(hist, ref) ==
    LET h == Append(hist, ref) IN
    IF Len(h) > MaxItems THEN SubSeq(h, 2, Len(h)) ELSE h

\* QueryHistoryStore.addQuery on the array: the item is put at the front and
\* the array cut back to maxItems.
addQuery(hist, ref) ==
    LET h == Unshift(hist, ref) IN
    IF Len(h) > MaxItems THEN SliceTo(h, MaxItems) ELSE h

\* QueryHistoryStore.getRecentQueries: a new array holding the same item
\* references, in the same order.
getRecentQueries(hist) == [i \in 1..Len(hist) |-> hist[i]]

\* QueryHistoryStore.clearHistory
clearHistory(hist) == << >>

\* The items an array of references denotes.
Deref(hp, arr) == [i \in 1..Len(arr) |-> hp[arr[i]]]

\* References held by an array.
Refs(arr) == {arr[i] : i \in 1..Len(arr)}

\* The objects still referenced by the store or by the array a caller holds;
\* the others are garbage.
Live(hp, hist, ret) ==
    LET keep == Refs(hist) \cup (IF ret = << >> THEN {} ELSE Refs(ret[1]))
    IN [r \in (DOMAIN hp) \cap keep |-> hp[r]]

\* The effect of addQuery(medA, medB, isPotentiallyRisky, reason) on the
\* store: a new object is allocated and put at the front of the array.  The
\* clock is read twice and may have moved on in between, to t2.
StoreQuery(args, t2) ==
    /\ t2 >= now
    /\ now' = t2
    /\ LET ref == nAdds + 1
           hp  == [r \in (DOMAIN heap) \cup {ref} |->
                      IF r = ref THEN NewItem(args, now, t2) ELSE heap[r]]
           h   == addQuery(history, ref)
       IN /\ history' = h
          /\ heap' = Live(hp, h, returned)
          /\ nAdds' = ref
    /\ sinceClear' = sinceClear + 1
    /\ lastAdd' = <<args>>
    /\ UNCHANGED returned

\* Largest clock value while the store is driven directly.
MaxHistTime == 2

\* queryHistoryStore.addQuery(medA, medB, isPotentiallyRisky, reason)
AddQueryCall(args) ==
    /\ nAdds < MaxAdds
    /\ \E t2 \in now..Max(now, MaxHistTime) : StoreQuery(args, t2)
    /\ UNCHANGED <<rlVars, faqVars>>

\* queryHistoryStore.getRecentQueries(), the caller keeping the result.
GetRecentQueriesCall ==
    /\ returned' = <<getRecentQueries(history)>>
    /\ heap' = Live(heap, history, returned')
    /\ UNCHANGED <<now, rlVars, faqVars, history, nAdds, sinceClear, lastAdd>>

\* queryHistoryStore.clearHistory()
ClearHistoryCall ==
    /\ history' = clearHistory(history)
    /\ heap' = Live(heap, history', returned)
    /\ sinceClear' = 0
    /\ UNCHANGED <<now, rlVars, faqVars, returned, nAdds, lastAdd>>

\* The caller lets go of the array it was given.
Release ==
    /\ returned # << >>
    /\ returned' = << >>
    /\ heap' = Live(heap, history, returned')
    /\ UNCHANGED <<now, rlVars, faqVars, history, nAdds, sinceClear, lastAdd>>

(* What a caller can do to the array it was given *)

Reverse(arr) == [i \in 1..Len(arr) |-> arr[Len(arr) + 1 - i]]

\* returned.reverse()
CallerReverse ==
    /\ returned # << >>
    /\ Len(returned[1]) >= 2
    /\ returned' = <<Reverse(returned[1])>>
    /\ UNCHANGED <<now, rlVars, faqVars, heap, history, nAdds, sinceClear, lastAdd>>

\* returned.shift()
CallerRemove ==
    /\ returned # << >>
    /\ Len(returned[1]) >= 1
    /\ returned' = <<Tail(returned[1])>>
    /\ heap' = Live(heap, history, returned')
    /\ UNCHANGED <<now, rlVars, faqVars, history, nAdds, sinceClear, lastAdd>>

\* returned.push(returned[0])
CallerPush ==
    /\ returned # << >>
    /\ Len(returned[1]) >= 1
    /\ Len(returned[1]) <= Len(history)
    /\ returned' = <<Append(returned[1], returned[1][1])>>
    /\ UNCHANGED <<now, rlVars, faqVars, heap, history, nAdds, sinceClear, lastAdd>>

\* returned[i].medA = v : the write goes to the object the array refers to.
CallerSetField(i, v) ==
    /\ returned # << >>
    /\ i \in 1..Len(returned[1])
    /\ heap' = [heap EXCEPT ![returned[1][i]].medA = v]
    /\ UNCHANGED <<now, rlVars, faqVars, history, returned, nAdds, sinceClear, lastAdd>>

\* Any modification a caller makes to what it was given.
CallerMutation ==
    \/ CallerReverse
    \/ CallerRemove
    \/ CallerPush
    \/ \E i \in 1..MaxItems, v \in TamperValues : CallerSetField(i, v)

(* The store used call by call, each result consumed before the next call *)

NextHist ==
    \/ returned = << >> /\ AddQueryCall(ArgsOfCall(nAdds + 1))
    \/ returned = << >> /\ GetRecentQueriesCall
    \/ returned = << >> /\ ClearHistoryCall
    \/ Release
    \/ now < MaxHistTime /\ Tick

SpecHist == Init /\ [][NextHist]_vars

(* The store with callers that keep and modify the arrays they were given *)

NextAlias ==
    \/ \E args \in AddArgs : nAdds < MaxAliasAdds /\ AddQueryCall(args)
    \/ GetRecentQueriesCall
    \/ ClearHistoryCall
    \/ Release
    \/ CallerMutation
    \/ now < MaxHistTime /\ Tick

SpecAlias == Init /\ [][NextAlias]_vars

-----------------------------------------------------------------------------
(* Properties of the history store *)

\* C8: after any sequence of addQuery, getRecentQueries and clearHistory
\* calls the store holds at most maxItems items.
C8_HistoryAtMostMaxItems == Len(history) <= MaxItems

\* More than maxItems items were added without a clear in between, and the
\* store is full.
C8_Witness ==
    /\ sinceClear > MaxItems
    /\ Len(history) = MaxItems

\* The k-th item added since the last clearHistory (or since construction).
AddedSinceClear(k) == nAdds - sinceClear + k

\* What getRecentQueries has to return after sinceClear additions: the
\* min(sinceClear, maxItems) most recently added items, newest first.
MostRecentFirst ==
    [i \in 1..Min(sinceClear, MaxItems) |->
        AddedSinceClear(sinceClear - i + 1)]

\* C9: getRecentQueries returns exactly the min(k, 10) most recently added
\* items, newest first, k being the number of addQuery calls since the last
\* clearHistory; the newest item carries the arguments of the last addQuery;
\* after 15 additions the result has length 10, starts with the 15th item
\* added and ends with the 6th; after clearHistory it is empty.
C9_RecentQueriesNewestFirst ==
    LET res == getRecentQueries(history) IN
    /\ res = MostRecentFirst
    /\ returned # << >> => returned[1] = MostRecentFirst
    /\ Len(res) >= 1 =>
          /\ heap[res[1]].medA = lastAdd[1].medA
          /\ heap[res[1]].medB = lastAdd[1].medB
          /\ heap[res[1]].isPotentiallyRisky = lastAdd[1].isPotentiallyRisky
          /\ heap[res[1]].reason = lastAdd[1].reason
    /\ sinceClear = 15 =>
          /\ Len(res) = 10
          /\ res[1] = AddedSinceClear(15)
          /\ res[10] = AddedSinceClear(6)
    /\ sinceClear = 0 => res = << >>

\* getRecentQueries has just been called after 15 additions and gave ten
\* items, the 15th added first and the 6th last.
C9_Witness ==
    /\ sinceClear = 15
    /\ returned # << >>
    /\ Len(returned[1]) = 10
    /\ returned[1][1] = AddedSinceClear(15)
    /\ returned[1][10] = AddedSinceClear(6)

\* What a call of getRecentQueries would show its caller: the items, with
\* their fields, in order.
RecentView(hp, hist) == Deref(hp, getRecentQueries(hist))

\* C10 as stated: nothing a caller does to the value getRecentQueries gave it
\* (reordering, removing or adding elements, writing a field of an item)
\* changes what a later getRecentQueries call returns.
C10_Orig_ReturnedValueIsDefensiveCopy ==
    [][CallerMutation =>
          RecentView(heap', history') = RecentView(heap, history)]_vars

-----------------------------------------------------------------------------
(* Strings.  A string is the sequence of its characters.  A printable     *)
(* ASCII character, tab, line feed, form feed and carriage return are      *)
(* one-character TLA+ strings; any other character is written as the name  *)
(* of its code point, "U+212A".  Beyond ASCII the alphabet holds the white *)
(* space characters, the Latin-1 letters, U+0130, U+212A and U+212B: the   *)
(* last three are the capitals whose lower case is or holds an ASCII       *)
(* letter or that fold onto a Latin-1 letter.                              *)

\* Characters matched by \s, which are also the ones trim() removes: tab,
\* line feed, vertical tab, form feed, carriage return, space, no-break
\* space, the Unicode space separators, the line and paragraph separators
\* and the byte order mark.
WhiteSpace ==
    {" ", "\t", "\n", "\f", "\r",
     "U+000B", "U+00A0", "U+1680", "U+2000", "U+2001", "U+2002", "U+2003",
     "U+2004", "U+2005", "U+2006", "U+2007", "U+2008", "U+2009", "U+200A",
     "U+2028", "U+2029", "U+202F", "U+205F", "U+3000", "U+FEFF"}

UpperCase == <<"A", "B", "C", "D", "E", "F", "G", "H", "I", "J", "K", "L", "M",
               "N", "O", "P", "Q", "R", "S", "T", "U", "V", "W", "X", "Y", "Z">>
LowerCase == <<"a", "b", "c", "d", "e", "f", "g", "h", "i", "j", "k", "l", "m",
               "n", "o", "p", "q", "r", "s", "t", "u", "v", "w", "x", "y", "z">>

\* Capitals outside ASCII: the Latin-1 capitals, KELVIN SIGN and ANGSTROM
\* SIGN, and below them what toLowerCase makes of each.
UpperOther ==
    <<"U+00C0", "U+00C1", "U+00C2", "U+00C3", "U+00C4", "U+00C5", "U+00C6",
      "U+00C7", "U+00C8", "U+00C9", "U+00CA", "U+00CB", "U+00CC", "U+00CD",
      "U+00CE", "U+00CF", "U+00D0", "U+00D1", "U+00D2", "U+00D3", "U+00D4",
      "U+00D5", "U+00D6", "U+00D8", "U+00D9", "U+00DA", "U+00DB", "U+00DC",
      "U+00DD", "U+00DE", "U+212A", "U+212B">>
LowerOther ==
    <<"U+00E0", "U+00E1", "U+00E2", "U+00E3", "U+00E4", "U+00E5", "U+00E6",
      "U+00E7", "U+00E8", "U+00E9", "U+00EA", "U+00EB", "U+00EC", "U+00ED",
      "U+00EE", "U+00EF", "U+00F0", "U+00F1", "U+00F2", "U+00F3", "U+00F4",
      "U+00F5", "U+00F6", "U+00F8", "U+00F9", "U+00FA", "U+00FB", "U+00FC",
      "U+00FD", "U+00FE", "k", "U+00E5">>

\* LATIN CAPITAL LETTER I WITH DOT ABOVE, which toLowerCase turns into two
\* characters: i and COMBINING DOT ABOVE.
CapitalDottedI == "U+0130"

\* The capitals and, for each, the character toLowerCase puts in its place.
Capitals ==
    {UpperCase[i] : i \in 1..Len(UpperCase)}
        \cup {UpperOther[i] : i \in 1..Len(UpperOther)}

LowerOf ==
    [c \in Capitals |->
        IF \E i \in 1..Len(UpperCase) : UpperCase[i] = c
        THEN LowerCase[CHOOSE i \in 1..Len(UpperCase) : UpperCase[i] = c]
        ELSE LowerOther[CHOOSE i \in 1..Len(UpperOther) : UpperOther[i] = c]]

\* toLowerCase of a character that stays one character.
LowerChar(c) == IF c \in Capitals THEN LowerOf[c] ELSE c

\* toLowerCase of one character, as a string.
LowerString(c) ==
    IF c = CapitalDottedI THEN <<"i", "U+0307">> ELSE <<LowerChar(c)>>

RECURSIVE LowerConcat(_)
LowerConcat(str) ==
    IF str = << >> THEN << >>
    ELSE LowerString(Head(str)) \o LowerConcat(Tail(str))

\* String.prototype.toLowerCase
ToLowerCase(str) ==
    IF \A i \in 1..Len(str) : str[i] # CapitalDottedI
    THEN [i \in 1..Len(str) |-> LowerChar(str[i])]
    ELSE LowerConcat(str)

\* String.prototype.includes: sub occurs in str (the empty string always does).
Includes(str, sub) ==
    \E i \in 0..(Len(str) - Len(sub)) : SubSeq(str, i + 1, i + Len(sub)) = sub

\* String.prototype.split(/\s+/): the pieces between maximal runs of white
\* space, in order.  A run at the start leaves an empty piece before it, a
\* run at the end an empty piece after it, and the empty string gives one
\* empty piece.
WordStarts(str) ==
    {i \in 1..Len(str) :
        str[i] \notin WhiteSpace /\ (i = 1 \/ str[i - 1] \in WhiteSpace)}

WordEnd(str, i) ==
    CHOOSE j \in i..Len(str) :
        /\ \A x \in i..j : str[x] \notin WhiteSpace
        /\ (j = Len(str) \/ str[j + 1] \in WhiteSpace)

\* The k-th smallest element of a set of integers.
Nth(S, k) == CHOOSE x \in S : Cardinality({y \in S : y < x}) = k - 1

SplitWhiteSpace(str) ==
    IF str = << >> THEN << << >> >>
    ELSE LET starts == WordStarts(str)
             words == [k \in 1..Cardinality(starts) |->
                          SubSeq(str, Nth(starts, k),
                                 WordEnd(str, Nth(starts, k)))]
             lead == IF str[1] \in WhiteSpace THEN << << >> >> ELSE << >>
             trail == IF str[Len(str)] \in WhiteSpace THEN << << >> >>
                      ELSE << >>
         IN lead \o words \o trail

\* String.prototype.trim
RECURSIVE TrimStart(_)
TrimStart(str) ==
    IF str # << >> /\ Head(str) \in WhiteSpace THEN TrimStart(Tail(str)) ELSE str

RECURSIVE TrimEnd(_)
TrimEnd(str) ==
    IF str # << >> /\ str[Len(str)] \in WhiteSpace
    THEN TrimEnd(SubSeq(str, 1, Len(str) - 1)) ELSE str

Trim(str) == TrimEnd(TrimStart(str))

-----------------------------------------------------------------------------
(* FAQ search service *)

\* "Medication adherence improves outcomes in diabetes; missed doses are a leading cause of poor control."
Corpus1 ==
    <<"M", "e", "d", "i", "c", "a", "t", "i", "o", "n", " ", "a", "d", "h",
      "e", "r", "e", "n", "c", "e", " ", "i", "m", "p", "r", "o", "v", "e",
      "s", " ", "o", "u", "t", "c", "o", "m", "e", "s", " ", "i", "n", " ",
      "d", "i", "a", "b", "e", "t", "e", "s", ";", " ", "m", "i", "s", "s",
      "e", "d", " ", "d", "o", "s", "e", "s", " ", "a", "r", "e", " ", "a",
      " ", "l", "e", "a", "d", "i", "n", "g", " ", "c", "a", "u", "s", "e",
      " ", "o", "f", " ", "p", "o", "o", "r", " ", "c", "o", "n", "t", "r",
      "o", "l", ".">>

\* "Keep an up-to-date medication list; reconcile after every clinic or hospital visit."
Corpus2 ==
    <<"K", "e", "e", "p", " ", "a", "n", " ", "u", "p", "-", "t", "o", "-",
      "d", "a", "t", "e", " ", "m", "e", "d", "i", "c", "a", "t", "i", "o",
      "n", " ", "l", "i", "s", "t", ";", " ", "r", "e", "c", "o", "n", "c",
      "i", "l", "e", " ", "a", "f", "t", "e", "r", " ", "e", "v", "e", "r",
      "y", " ", "c", "l", "i", "n", "i", "c", " ", "o", "r", " ", "h", "o",
      "s", "p", "i", "t", "a", "l", " ", "v", "i", "s", "i", "t", ".">>

\* "Use a pill organizer or phone reminders to reduce unintentional nonadherence."
Corpus3 ==
    <<"U", "s", "e", " ", "a", " ", "p", "i", "l", "l", " ", "o", "r", "g",
      "a", "n", "i", "z", "e", "r", " ", "o", "r", " ", "p", "h", "o", "n",
      "e", " ", "r", "e", "m", "i", "n", "d", "e", "r", "s", " ", "t", "o",
      " ", "r", "e", "d", "u", "c", "e", " ", "u", "n", "i", "n", "t", "e",
      "n", "t", "i", "o", "n", "a", "l", " ", "n", "o", "n", "a", "d", "h",
      "e", "r", "e", "n", "c", "e", ".">>

\* "High-risk interactions include anticoagulants with NSAIDs, ACE inhibitors with potassium-sparing diuretics, and metformin around contrast imaging."
Corpus4 ==
    <<"H", "i", "g", "h", "-", "r", "i", "s", "k", " ", "i", "n", "t", "e",
      "r", "a", "c", "t", "i", "o", "n", "s", " ", "i", "n", "c", "l", "u",
      "d", "e", " ", "a", "n", "t", "i", "c", "o", "a", "g", "u", "l", "a",
      "n", "t", "s", " ", "w", "i", "t", "h", " ", "N", "S", "A", "I", "D",
      "s", ",", " ", "A", "C", "E", " ", "i", "n", "h", "i", "b", "i", "t",
      "o", "r", "s", " ", "w", "i", "t", "h", " ", "p", "o", "t", "a", "s",
      "s", "i", "u", "m", "-", "s", "p", "a", "r", "i", "n", "g", " ", "d",
      "i", "u", "r", "e", "t", "i", "c", "s", ",", " ", "a", "n", "d", " ",
      "m", "e", "t", "f", "o", "r", "m", "i", "n", " ", "a", "r", "o", "u",
      "n", "d", " ", "c", "o", "n", "t", "r", "a", "s", "t", " ", "i", "m",
      "a", "g", "i", "n", "g", ".">>

\* "When in doubt, consult a pharmacist or clinician; online lists can be incomplete."
Corpus5 ==
    <<"W", "h", "e", "n", " ", "i", "n", " ", "d", "o", "u", "b", "t", ",",
      " ", "c", "o", "n", "s", "u", "l", "t", " ", "a", " ", "p", "h", "a",
      "r", "m", "a", "c", "i", "s", "t", " ", "o", "r", " ", "c", "l", "i",
      "n", "i", "c", "i", "a", "n", ";", " ", "o", "n", "l", "i", "n", "e",
      " ", "l", "i", "s", "t", "s", " ", "c", "a", "n", " ", "b", "e", " ",
      "i", "n", "c", "o", "m", "p", "l", "e", "t", "e", ".">>

\* FALLBACK_CORPUS
FALLBACK_CORPUS == <<Corpus1, Corpus2, Corpus3, Corpus4, Corpus5>>

\* The answer for no match at all.
\* "I don't have specific information about that topic. Please consult with a healthcare professional for medical guidance."
NoInformationAnswer ==
    <<"I", " ", "d", "o", "n", "'", "t", " ", "h", "a", "v", "e", " ", "s",
      "p", "e", "c", "i", "f", "i", "c", " ", "i", "n", "f", "o", "r", "m",
      "a", "t", "i", "o", "n", " ", "a", "b", "o", "u", "t", " ", "t", "h",
      "a", "t", " ", "t", "o", "p", "i", "c", ".", " ", "P", "l", "e", "a",
      "s", "e", " ", "c", "o", "n", "s", "u", "l", "t", " ", "w", "i", "t",
      "h", " ", "a", " ", "h", "e", "a", "l", "t", "h", "c", "a", "r", "e",
      " ", "p", "r", "o", "f", "e", "s", "s", "i", "o", "n", "a", "l", " ",
      "f", "o", "r", " ", "m", "e", "d", "i", "c", "a", "l", " ", "g", "u",
      "i", "d", "a", "n", "c", "e", ".">>

\* The suffix of the simple synthesis.
\* " For additional guidance, consult with a healthcare professional."
ConsultSuffix ==
    <<" ", "F", "o", "r", " ", "a", "d", "d", "i", "t", "i", "o", "n", "a",
      "l", " ", "g", "u", "i", "d", "a", "n", "c", "e", ",", " ", "c", "o",
      "n", "s", "u", "l", "t", " ", "w", "i", "t", "h", " ", "a", " ", "h",
      "e", "a", "l", "t", "h", "c", "a", "r", "e", " ", "p", "r", "o", "f",
      "e", "s", "s", "i", "o", "n", "a", "l", ".">>

\* The answer when the completion has no content.
\* "Unable to generate response."
UnableToGenerate ==
    <<"U", "n", "a", "b", "l", "e", " ", "t", "o", " ", "g", "e", "n", "e",
      "r", "a", "t", "e", " ", "r", "e", "s", "p", "o", "n", "s", "e", ".">>

\* A completion text returned by the chat model.
\* "Take medication as prescribed."
GeneratedAnswer ==
    <<"T", "a", "k", "e", " ", "m", "e", "d", "i", "c", "a", "t", "i", "o",
      "n", " ", "a", "s", " ", "p", "r", "e", "s", "c", "r", "i", "b", "e",
      "d", ".">>

\* The answer field of the 500 body.
\* "Sorry, I encountered an error processing your request. Please consult with a healthcare professional."
ErrorAnswer ==
    <<"S", "o", "r", "r", "y", ",", " ", "I", " ", "e", "n", "c", "o", "u",
      "n", "t", "e", "r", "e", "d", " ", "a", "n", " ", "e", "r", "r", "o",
      "r", " ", "p", "r", "o", "c", "e", "s", "s", "i", "n", "g", " ", "y",
      "o", "u", "r", " ", "r", "e", "q", "u", "e", "s", "t", ".", " ", "P",
      "l", "e", "a", "s", "e", " ", "c", "o", "n", "s", "u", "l", "t", " ",
      "w", "i", "t", "h", " ", "a", " ", "h", "e", "a", "l", "t", "h", "c",
      "a", "r", "e", " ", "p", "r", "o", "f", "e", "s", "s", "i", "o", "n",
      "a", "l", ".">>

\* "medication zzxxyy"
QueryMedicationZz ==
    <<"m", "e", "d", "i", "c", "a", "t", "i", "o", "n", " ", "z", "z", "x",
      "x", "y", "y">>

\* "zzxxyy nonexistent"
QueryNoMatch ==
    <<"z", "z", "x", "x", "y", "y", " ", "n", "o", "n", "e", "x", "i", "s",
      "t", "e", "n", "t">>

\* "pill"
QueryPill ==
    <<"p", "i", "l", "l">>

\* "  "
QueryBlank ==
    <<" ", " ">>

\* " Pill organizer "
QueryPadded ==
    <<" ", "P", "i", "l", "l", " ", "o", "r", "g", "a", "n", "i", "z", "e",
      "r", " ">>

\* topK of the index query and the slice of the fallback search.
TopK == 3
\* Number of HTTP requests received in one behaviour, and the largest clock
\* value reached while they are handled.
MaxApiCalls == 3
MaxApiTime == 3

\* A score is the quotient num / den of two integers, den > 0.
Score(n, d) == [num |-> n, den |-> d]
ScoreGt(a, b) == a.num * b.den > b.num * a.den
ScorePositive(a) == a.num > 0

\* Number of elements of seq that satisfy Test.
CountIf(seq, Test(_)) == Cardinality({i \in 1..Len(seq) : Test(seq[i])})

\* Mutant: an element goes before the elements of equal score, so that ties
\* end up in reverse order.
RECURSIVE InsertByScore_TiesReversed(_, _)
InsertByScore_TiesReversed(sorted, m) ==
    IF sorted = << >> THEN <<m>>
    ELSE IF ~ScoreGt(Head(sorted).score, m.score) THEN <<m>> \o sorted
    ELSE <<Head(sorted)>> \o InsertByScore_TiesReversed(Tail(sorted), m)

\* Array.prototype.sort((a, b) => b.score - a.score): descending by score,
\* elements of equal score keeping their order (the sort is stable).
RECURSIVE InsertByScore(_, _)
InsertByScore(sorted, m) ==
    IF sorted = << >> THEN <<m>>
    ELSE IF ScoreGt(m.score, Head(sorted).score) THEN <<m>> \o sorted
    ELSE <<Head(sorted)>> \o InsertByScore(Tail(sorted), m)

RECURSIVE SortByScoreDesc(_)
SortByScoreDesc(seq) ==
    IF seq = << >> THEN << >>
    ELSE InsertByScore(SortByScoreDesc(SubSeq(seq, 1, Len(seq) - 1)),
                       seq[Len(seq)])

\* text.toLowerCase().split(/\s+/) of every corpus text.
CorpusTerms ==
    [i \in 1..Len(FALLBACK_CORPUS) |->
        SplitWhiteSpace(ToLowerCase(FALLBACK_CORPUS[i]))]

\* Mutant: a query term counts only when a term of the text contains it.
FallbackScore_OneWay(queryTerms, textTerms) ==
    LET Matches(term) ==
            \E j \in 1..Len(textTerms) : Includes(textTerms[j], term)
    IN Score(CountIf(queryTerms, Matches), Len(queryTerms))

\* The score searchWithFallback gives a corpus text, from the terms of the
\* query and of the text.
FallbackScore(queryTerms, textTerms) ==
    LET Matches(term) ==
            \E j \in 1..Len(textTerms) :
                Includes(textTerms[j], term) \/ Includes(term, textTerms[j])
    IN Score(CountIf(queryTerms, Matches), Len(queryTerms))

\* Mutant: the fallback search does not cut its result to the top three.
searchWithFallback_NoSlice(query) ==
    LET queryTerms == SplitWhiteSpace(ToLowerCase(query))
        scores == [i \in 1..Len(FALLBACK_CORPUS) |->
                      [text |-> FALLBACK_CORPUS[i],
                       score |-> FallbackScore(queryTerms, CorpusTerms[i])]]
        HasScore(item) == ScorePositive(item.score)
    IN SortByScoreDesc(SelectSeq(scores, HasScore))

\* Mutant: the fallback search keeps the texts that score 0.
searchWithFallback_KeepZero(query) ==
    LET queryTerms == SplitWhiteSpace(ToLowerCase(query))
        scores == [i \in 1..Len(FALLBACK_CORPUS) |->
                      [text |-> FALLBACK_CORPUS[i],
                       score |-> FallbackScore(queryTerms, CorpusTerms[i])]]
    IN SliceTo(SortByScoreDesc(scores), TopK)

\* FAQSearchService.searchWithFallback
searchWithFallback(query) ==
    LET queryTerms == SplitWhiteSpace(ToLowerCase(query))
        scores == [i \in 1..Len(FALLBACK_CORPUS) |->
                      [text |-> FALLBACK_CORPUS[i],
                       score |-> FallbackScore(queryTerms, CorpusTerms[i])]]
        HasScore(item) == ScorePositive(item.score)
    IN SliceTo(SortByScoreDesc(SelectSeq(scores, HasScore)), TopK)

\* The ways the two client constructors can behave.
CtorOutcomes == {"ok", "pineconeThrows", "openaiThrows"}

\* Mutant: the constructor builds the clients when either key is set.
constructor_EitherKey(e, ctor) ==
    IF e.pineconeKey \/ e.openaiKey
    THEN IF ctor = "pineconeThrows"
         THEN [constructed |-> TRUE, pinecone |-> FALSE, openai |-> FALSE,
               useFallback |-> TRUE]
         ELSE IF ctor = "openaiThrows"
         THEN [constructed |-> TRUE, pinecone |-> TRUE, openai |-> FALSE,
               useFallback |-> TRUE]
         ELSE [constructed |-> TRUE, pinecone |-> TRUE, openai |-> TRUE,
               useFallback |-> FALSE]
    ELSE [constructed |-> TRUE, pinecone |-> FALSE, openai |-> FALSE,
          useFallback |-> TRUE]

\* FAQSearchService.constructor, under the given environment.
constructor(e, ctor) ==
    IF e.pineconeKey /\ e.openaiKey
    THEN IF ctor = "pineconeThrows"
         THEN [constructed |-> TRUE, pinecone |-> FALSE, openai |-> FALSE,
               useFallback |-> TRUE]
         ELSE IF ctor = "openaiThrows"
         THEN [constructed |-> TRUE, pinecone |-> TRUE, openai |-> FALSE,
               useFallback |-> TRUE]
         ELSE [constructed |-> TRUE, pinecone |-> TRUE, openai |-> TRUE,
               useFallback |-> FALSE]
    ELSE [constructed |-> TRUE, pinecone |-> FALSE, openai |-> FALSE,
          useFallback |-> TRUE]

\* What index.query can answer: matches undefined, or up to topK matches, a
\* match possibly without metadata text.
PineconeResponses ==
    { [defined |-> FALSE, matches |-> << >>],
      [defined |-> TRUE, matches |-> << >>],
      [defined |-> TRUE,
       matches |-> <<[text |-> Corpus3, score |-> Score(9, 10)]>>],
      [defined |-> TRUE,
       matches |-> <<[text |-> Corpus1, score |-> Score(9, 10)],
                     [text |-> << >>, score |-> Score(8, 10)],
                     [text |-> Corpus2, score |-> Score(7, 10)]>>] }

\* searchWithPinecone, from the index response to its return value.
mapMatches(resp) ==
    LET HasText(m) == m.text # << >>
    IN IF resp.defined THEN SelectSeq(resp.matches, HasText) ELSE << >>

\* Mutant: the catch block of search() gives the error back to its caller.
searchCatch_Rethrow(inst, query) ==
    [inst |-> inst, raised |-> TRUE, matches |-> << >>]

\* Mutant: the catch block answers from the fallback without switching the
\* instance to it.
searchCatch_KeepsMode(inst, query) ==
    [inst |-> inst, raised |-> FALSE, matches |-> searchWithFallback(query)]

\* FAQSearchService.search, the catch block: the instance is switched to the
\* fallback and the fallback result of the same query returned.
searchCatch(inst, query) ==
    [inst |-> [inst EXCEPT !.useFallback = TRUE],
     raised |-> FALSE,
     matches |-> searchWithFallback(query)]

\* Mutant: a successful index query marks the service healthy again.
searchOk_Recover(inst, resp) ==
    [inst |-> [inst EXCEPT !.useFallback = FALSE],
     raised |-> FALSE,
     matches |-> mapMatches(resp)]

\* FAQSearchService.search, the try block having succeeded.
searchOk(inst, resp) ==
    [inst |-> inst, raised |-> FALSE, matches |-> mapMatches(resp)]

\* synthesizeAnswer, the simple synthesis.
simpleSynthesis(matches) ==
    IF Len(matches) = 1 THEN matches[1].text
    ELSE matches[1].text \o ConsultSuffix

\* What the completion call can do.
ChatOutcomes == {"content", "empty", "error"}

\* synthesizeAnswer, from the outcome of the completion call to the answer.
chatAnswer(outcome, matches) ==
    IF outcome = "content" THEN GeneratedAnswer
    ELSE IF outcome = "empty" THEN UnableToGenerate
    ELSE simpleSynthesis(matches)

\* Slot r is free for a new invocation.
Free(r) == faq[r].pc = "idle"

\* No response that GET built without calling the service (429, 400) is
\* waiting to be sent: GET builds and returns such a response in one
\* synchronous run.  A result of handleFAQ, in contrast, waits for the hop
\* in which its caller resumes, and other continuations run in between.
Quiet == \A r \in Slots : ~(faq[r].pc = "done" /\ faq[r].outcome = "refused")

\* Every caller whose handleFAQ has returned has resumed.  Between the return
\* and the resumption only continuations that are already due run; a new
\* request or a timer gets a turn of the event loop of its own, after them.
TurnOver == \A r \in Slots : faq[r].pc # "done"

\* A new invocation takes the lowest free slot.
TakesSlot(r) == Free(r) /\ \A x \in Slots : x < r => ~Free(x)

\* search() has its result: the invocation resumes after `await this.search`.
Searched(c, o, path) ==
    IF o.raised
    THEN [c EXCEPT !.pc = "done", !.outcome = "raised",
                   !.status = IF c.http THEN 500 ELSE 0,
                   !.answer = IF c.http THEN ErrorAnswer ELSE << >>,
                   !.matches = << >>]
    ELSE [c EXCEPT !.pc = "searched", !.via = path, !.matches = o.matches]

\* handleFAQ returns {answer, matches}; GET answers with it.
Answered(c, answer) ==
    [c EXCEPT !.pc = "done", !.outcome = "result", !.answer = answer,
              !.status = IF c.http THEN 200 ELSE 0]

\* handleFAQ(query) on instance i, up to its first await: search() either
\* answers from the fallback or issues the embedding call.
BeginHandleFAQ(r, i, inst, query, viaHttp) ==
    LET c == [IdleCall EXCEPT !.http = viaHttp, !.query = query] IN
    IF inst.useFallback
    THEN /\ svc' = [svc EXCEPT ![i] = inst]
         /\ faq' = [faq EXCEPT ![r] =
                       [c EXCEPT !.pc = "searched", !.via = "fallback",
                                 !.matches = searchWithFallback(query)]]
         /\ UNCHANGED warned
    ELSE IF ~inst.pinecone \/ ~inst.openai
    THEN LET o == searchCatch(inst, query) IN
         /\ svc' = [svc EXCEPT ![i] = o.inst]
         /\ faq' = [faq EXCEPT ![r] = Searched(c, o, "catch")]
         /\ warned' = TRUE
    ELSE /\ svc' = [svc EXCEPT ![i] = inst]
         /\ faq' = [faq EXCEPT ![r] = [c EXCEPT !.pc = "embedding"]]
         /\ UNCHANGED warned

\* The instance serving slot r: its own under GET, instance 0 otherwise.
InstOf(r) == IF faq[r].http THEN r ELSE 0

\* openai.embeddings.create settles; on success index.query is called.
EmbedReturn(r, ok) ==
    /\ faq[r].pc = "embedding"
    /\ IF ok
       THEN /\ faq' = [faq EXCEPT ![r].pc = "querying"]
            /\ UNCHANGED <<svc, warned>>
       ELSE LET o == searchCatch(svc[InstOf(r)], faq[r].query) IN
            /\ svc' = [svc EXCEPT ![InstOf(r)] = o.inst]
            /\ faq' = [faq EXCEPT ![r] = Searched(faq[r], o, "catch")]
            /\ warned' = TRUE
    /\ UNCHANGED <<now, rlVars, histVars, env, post>>

\* index.query settles with a response.
QueryReturn(r, resp) ==
    /\ faq[r].pc = "querying"
    /\ LET o == searchOk(svc[InstOf(r)], resp) IN
        /\ svc' = [svc EXCEPT ![InstOf(r)] = o.inst]
        /\ faq' = [faq EXCEPT ![r] = Searched(faq[r], o, "vector")]
    /\ UNCHANGED <<now, rlVars, histVars, env, post, warned>>

\* index.query fails.
QueryFail(r) ==
    /\ faq[r].pc = "querying"
    /\ LET o == searchCatch(svc[InstOf(r)], faq[r].query) IN
        /\ svc' = [svc EXCEPT ![InstOf(r)] = o.inst]
        /\ faq' = [faq EXCEPT ![r] = Searched(faq[r], o, "catch")]
    /\ warned' = TRUE
    /\ UNCHANGED <<now, rlVars, histVars, env, post>>

\* handleFAQ resumes after search: synthesizeAnswer up to its first await,
\* which is the completion call if there is one to make.
Synthesize(r) ==
    /\ faq[r].pc = "searched"
    /\ LET c == faq[r]
           inst == svc[InstOf(r)]
       IN IF Len(c.matches) = 0
          THEN faq' = [faq EXCEPT ![r] = Answered(c, NoInformationAnswer)]
          ELSE IF inst.openai /\ ~inst.useFallback
          THEN faq' = [faq EXCEPT ![r].pc = "synthesizing"]
          ELSE faq' = [faq EXCEPT ![r] =
                          Answered(c, simpleSynthesis(c.matches))]
    /\ UNCHANGED <<now, rlVars, histVars, env, post, svc, warned>>

\* openai.chat.completions.create settles.
ChatReturn(r, outcome) ==
    /\ faq[r].pc = "synthesizing"
    /\ faq' = [faq EXCEPT ![r] =
                  Answered([faq[r] EXCEPT !.chat = outcome],
                           chatAnswer(outcome, faq[r].matches))]
    /\ UNCHANGED <<now, rlVars, histVars, env, post, svc, warned>>

\* The caller of handleFAQ resumes from its await and takes the result
\* (GET sends the response); the instance GET built for the request is
\* dropped with it.  Continuations of other invocations can run between the
\* hop in which handleFAQ returned and this one.
Deliver(r) ==
    /\ faq[r].pc = "done"
    /\ faq' = [faq EXCEPT ![r] = IdleCall]
    /\ svc' = IF faq[r].http THEN [svc EXCEPT ![r] = NoService] ELSE svc
    /\ UNCHANGED <<now, rlVars, histVars, env, post, warned>>

\* The steps by which an invocation in flight goes on.
Progress(r) ==
    \/ \E ok \in BOOLEAN : EmbedReturn(r, ok)
    \/ \E resp \in PineconeResponses : QueryReturn(r, resp)
    \/ QueryFail(r)
    \/ Synthesize(r)
    \/ \E outcome \in ChatOutcomes : ChatReturn(r, outcome)

(* One FAQSearchService instance used for several handleFAQ calls *)

\* Queries given to handleFAQ.
FaqQueries == {QueryMedicationZz, QueryNoMatch, QueryPill}

Envs == [pineconeKey : BOOLEAN, openaiKey : BOOLEAN]

\* The process started under any setting of the two API keys.
InitFaq ==
    /\ InitBase
    /\ env \in Envs

\* new FAQSearchService()
Construct(ctor) ==
    /\ ~svc[0].constructed
    /\ svc' = [svc EXCEPT ![0] = constructor(env, ctor)]
    /\ UNCHANGED <<now, rlVars, histVars, env, post, faq, warned>>

\* service.handleFAQ(query) on the long-lived instance.
HandleFAQCall(r, query) ==
    /\ svc[0].constructed
    /\ TakesSlot(r)
    /\ BeginHandleFAQ(r, 0, svc[0], query, FALSE)
    /\ UNCHANGED <<now, rlVars, histVars, env, post>>

NextFaq ==
    \/ \E r \in Slots : Deliver(r)
    \/ \E ctor \in CtorOutcomes : Construct(ctor)
    \/ \E r \in Slots, query \in FaqQueries : HandleFAQCall(r, query)
    \/ \E r \in Slots : Progress(r)

SpecFaq == InitFaq /\ [][NextFaq]_vars

(* The fallback search on its own, over many queries *)

\* "medication"
WordMedication ==
    <<"m", "e", "d", "i", "c", "a", "t", "i", "o", "n">>

\* "adherence"
WordAdherence ==
    <<"a", "d", "h", "e", "r", "e", "n", "c", "e">>

\* "diabetes"
WordDiabetes ==
    <<"d", "i", "a", "b", "e", "t", "e", "s">>

\* "zzxxyy"
WordZz ==
    <<"z", "z", "x", "x", "y", "y">>

\* "nonexistent"
WordNonexistent ==
    <<"n", "o", "n", "e", "x", "i", "s", "t", "e", "n", "t">>

\* "Pill"
WordPill ==
    <<"P", "i", "l", "l">>

\* "list"
WordList ==
    <<"l", "i", "s", "t">>

\* The words the queries are made of.
Vocabulary ==
    {WordMedication, WordAdherence, WordDiabetes, WordZz, WordNonexistent,
     WordPill, WordList}

\* Largest number of words in a query.
MaxTerms == 3

\* The words joined by single spaces.
RECURSIVE JoinWords(_)
JoinWords(ws) ==
    IF Len(ws) = 0 THEN << >>
    ELSE IF Len(ws) = 1 THEN ws[1]
    ELSE ws[1] \o <<" ">> \o JoinWords(Tail(ws))

\* Queries of one to MaxTerms words.
SearchQueries ==
    {JoinWords(ws) : ws \in UNION {[1..n -> Vocabulary] : n \in 1..MaxTerms}}

\* "pill\rorganizer": two words with a carriage return between them.
QueryCarriageReturn ==
    <<"p", "i", "l", "l", "\r", "o", "r", "g", "a", "n", "i", "z", "e", "r">>

\* The one character KELVIN SIGN, whose lower case is "k".
QueryKelvin ==
    <<"U+212A">>

\* LATIN CAPITAL LETTER I WITH DOT ABOVE followed by "nclude": in lower case
\* "i", COMBINING DOT ABOVE, "nclude".
QueryDottedI ==
    <<"U+0130", "n", "c", "l", "u", "d", "e">>

\* The empty query, a query of white space only, and queries with
\* characters outside printable ASCII.
EdgeQueries ==
    {<< >>, QueryBlank, QueryCarriageReturn, QueryKelvin, QueryDottedI}

\* One instance built without API keys answers one query after the other.
NextSearch ==
    \/ \E r \in Slots : Deliver(r)
    \/ Construct("ok")
    \/ /\ \A r \in Slots : Free(r)
       /\ \E query \in SearchQueries \cup EdgeQueries :
             HandleFAQCall(1, query)
    \/ \E r \in Slots : Synthesize(r)

SpecSearch == Init /\ [][NextSearch]_vars

(* The HTTP endpoint GET /api/faq, requests handled concurrently *)

\* The q parameter of a request: absent (<< >>) or present with a value.
ApiQueries == {<< >>, <<QueryBlank>>, <<QueryPadded>>}

\* The client addresses the requests come from.
ApiClients == {"ip1"}

\* The value of the Retry-After header of a 429 response.
RetryAfter == 60

\* A response sent without calling the service.
Refused(code) ==
    [IdleCall EXCEPT !.pc = "done", !.http = TRUE, !.outcome = "refused",
                     !.status = code,
                     !.retryAfter = IF code = 429 THEN RetryAfter ELSE 0]

\* Mutant: q is validated before the rate limit check.
GetFaq_ValidatesFirst(r, ip, q, ctor) ==
    /\ Len(rlTrace) < MaxApiCalls
    /\ TakesSlot(r)
    /\ IF q = << >> \/ Len(Trim(q[1])) = 0
       THEN /\ faq' = [faq EXCEPT ![r] = Refused(400)]
            /\ UNCHANGED <<requests, rlTrace, svc, warned>>
       ELSE LET a == isAllowed(requests, ip, now) IN
            /\ requests' = a.requests
            /\ rlTrace' = Append(rlTrace,
                                 [key |-> ip, at |-> now, allowed |-> a.allowed])
            /\ IF ~a.allowed
               THEN /\ faq' = [faq EXCEPT ![r] = Refused(429)]
                    /\ UNCHANGED <<svc, warned>>
               ELSE BeginHandleFAQ(r, r, constructor(env, ctor), Trim(q[1]),
                                   TRUE)
    /\ UNCHANGED <<now, rlLast, histVars, env, post>>

\* Mutant: the service is built before the rate limit check.
GetFaq_ConstructsFirst(r, ip, q, ctor) ==
    /\ Len(rlTrace) < MaxApiCalls
    /\ TakesSlot(r)
    /\ LET a == isAllowed(requests, ip, now) IN
        /\ requests' = a.requests
        /\ rlTrace' = Append(rlTrace,
                             [key |-> ip, at |-> now, allowed |-> a.allowed])
        /\ IF ~a.allowed
           THEN /\ faq' = [faq EXCEPT ![r] = Refused(429)]
                /\ svc' = [svc EXCEPT ![r] = constructor(env, ctor)]
                /\ UNCHANGED warned
           ELSE IF q = << >> \/ Len(Trim(q[1])) = 0
           THEN /\ faq' = [faq EXCEPT ![r] = Refused(400)]
                /\ UNCHANGED <<svc, warned>>
           ELSE BeginHandleFAQ(r, r, constructor(env, ctor), Trim(q[1]), TRUE)
    /\ UNCHANGED <<now, rlLast, histVars, env, post>>

\* GET(request) up to its first await: the rate limit check, the validation
\* of q, the construction of the service and the start of handleFAQ.
GetFaq(r, ip, q, ctor) ==
    /\ Len(rlTrace) < MaxApiCalls
    /\ TakesSlot(r)
    /\ LET a == isAllowed(requests, ip, now) IN
        /\ requests' = a.requests
        /\ rlTrace' = Append(rlTrace,
                             [key |-> ip, at |-> now, allowed |-> a.allowed])
        /\ IF ~a.allowed
           THEN /\ faq' = [faq EXCEPT ![r] = Refused(429)]
                /\ UNCHANGED <<svc, warned>>
           ELSE IF q = << >> \/ Len(Trim(q[1])) = 0
           THEN /\ faq' = [faq EXCEPT ![r] = Refused(400)]
                /\ UNCHANGED <<svc, warned>>
           ELSE BeginHandleFAQ(r, r, constructor(env, ctor), Trim(q[1]), TRUE)
    /\ UNCHANGED <<now, rlLast, histVars, env, post>>

NextApi ==
    \/ \E r \in Slots : Deliver(r)
    \/ TurnOver /\ \E r \in Slots, ip \in ApiClients, q \in ApiQueries,
                    ctor \in CtorOutcomes : GetFaq(r, ip, q, ctor)
    \/ Quiet /\ \E r \in Slots : Progress(r)
    \/ TurnOver /\ Cleanup
    \/ now < MaxApiTime /\ Tick

\* The process started with both API keys set, or with none.
InitApi ==
    /\ InitBase
    /\ env \in {e \in Envs : e.pineconeKey = e.openaiKey}

SpecApi == InitApi /\ [][NextApi]_vars

\* The handler's own continuations run once they can: a result is
\* delivered and a finished search goes on to synthesis.  The embedding,
\* index and completion calls are issued without a timeout or abort signal,
\* so nothing makes them settle.
FairApi ==
    \A r \in Slots :
        /\ WF_vars(Deliver(r))
        /\ WF_vars(Quiet /\ Synthesize(r))

SpecApiLive == SpecApi /\ FairApi

-----------------------------------------------------------------------------
(* Properties of the search service and of the endpoint *)

\* An invocation that is between its first await and its result.
InFlight(r) == faq[r].pc \in {"embedding", "querying", "searched",
                              "synthesizing"}

\* The step starts a request whose search calls the embedding service.
CallsEmbedding ==
    \E r \in Slots : faq[r].pc = "idle" /\ faq'[r].pc = "embedding"

\* C2 as stated: once a request has hit an embedding or index failure and
\* been forced to the fallback, no later request handled by the process
\* calls the embedding or vector service again.
C2_Orig_FallbackStaysForLaterRequests ==
    [][warned => ~CallsEmbedding]_vars

\* Calls on key k admitted since the current window of k was opened.
AdmittedInWindow(k) ==
    {i \in CallsOn(k) :
        rlTrace[i].allowed /\ rlTrace[i].at >= WindowOpenedAt(k)}

\* C4: whatever the interleaving of the requests in flight, the count stored
\* for a key equals the number of calls on that key admitted in its current
\* window, and that number never exceeds MaxRequests.
C4_CountIsAdmittedInWindow ==
    \A k \in DOMAIN requests :
        /\ requests[k].count = Cardinality(AdmittedInWindow(k))
        /\ requests[k].count <= MaxRequests

\* A request was refused with 429 while an admitted request of the same
\* client was still in flight, the count of the client standing at the cap.
C4_Witness ==
    \E k \in DOMAIN requests : \E r, x \in Slots :
        /\ requests[k].count = MaxRequests
        /\ Cardinality(AdmittedInWindow(k)) = MaxRequests
        /\ rlTrace[Len(rlTrace)].key = k
        /\ ~rlTrace[Len(rlTrace)].allowed
        /\ faq[r].pc = "done" /\ faq[r].status = 429
        /\ InFlight(x)

\* C5: search never raises, and a call whose embedding or index query
\* failed has switched the instance to the fallback and carries the
\* fallback result of its own query.
C5_SearchFailureFallsBack ==
    \A r \in Slots :
        /\ faq[r].outcome # "raised"
        /\ (faq[r].via = "catch" /\ faq[r].pc = "searched") =>
              /\ svc[0].useFallback
              /\ faq[r].matches = searchWithFallback(faq[r].query)

\* An instance built with both clients has had a call fail, and that call
\* holds a non-empty fallback result.
C5_Witness ==
    \E r \in Slots :
        /\ svc[0].pinecone /\ svc[0].openai
        /\ faq[r].via = "catch" /\ faq[r].pc = "searched"
        /\ svc[0].useFallback
        /\ Len(faq[r].matches) > 0
        /\ faq[r].matches = searchWithFallback(faq[r].query)

\* C6: an instance that has entered fallback mode stays in it, whatever
\* search or synthesis step comes next.
C6_FallbackModeIsPermanent ==
    [][(svc[0].constructed /\ svc[0].useFallback) =>
           (svc'[0].constructed /\ svc'[0].useFallback)]_vars

\* An instance built with both clients is in fallback mode, and an index
\* query issued before the downgrade has since succeeded on it.
C6_Witness ==
    \E r \in Slots :
        /\ svc[0].pinecone /\ svc[0].openai
        /\ svc[0].useFallback
        /\ faq[r].via = "vector" /\ faq[r].pc = "searched"

-----------------------------------------------------------------------------
(* Further properties of the rate limiter *)

\* The step is an admitted call of isAllowed on key k.
IsAdmittedCallOn(k) == IsCallOn(k) /\ rlTrace'[Len(rlTrace')].allowed

\* The step is a call of getRemaining.
IsGetRemaining == rlLast' # rlLast /\ rlLast'.op = "getRemaining"

\* The step is a run of the sweep.
IsSweep == rlLast' # rlLast /\ rlLast'.op = "cleanup"

\* Key k has an entry whose window has not passed.
LiveEntry(k) == k \in DOMAIN requests /\ ~(now > requests[k].resetTime)

\* C11: getRemaining(k) returns MaxRequests when k has no entry or its
\* window has passed and max(0, MaxRequests - count) otherwise, and leaves
\* the map as it was; every admitted isAllowed(k) lowers it by one, and it
\* is 0 for a key whose live entry is at the cap.
C11_RemainingIsCapMinusCount ==
    [][/\ IsGetRemaining =>
            /\ rlLast'.value =
                  IF LiveEntry(rlLast'.key)
                  THEN Max(0, MaxRequests - requests[rlLast'.key].count)
                  ELSE MaxRequests
            /\ (LiveEntry(rlLast'.key)
                   /\ requests[rlLast'.key].count >= MaxRequests)
                  => rlLast'.value = 0
            /\ requests' = requests
       /\ \A k \in Keys : IsAdmittedCallOn(k) =>
            getRemaining(requests', k, now').value =
                getRemaining(requests, k, now).value - 1
      ]_vars

\* getRemaining has just answered MaxRequests for a key whose stored entry
\* is at the cap but whose window has passed.
C11_Witness ==
    /\ rlLast.op = "getRemaining"
    /\ rlLast.at = now
    /\ rlLast.value = MaxRequests
    /\ rlLast.key \in DOMAIN requests
    /\ requests[rlLast.key].count = MaxRequests
    /\ now > requests[rlLast.key].resetTime

\* The entry of key k, or <<>> when it has none.
EntryOf(reqs, k) == IF k \in DOMAIN reqs THEN <<reqs[k]>> ELSE << >>

\* C12: a call of isAllowed or getRemaining on one key leaves the entry of
\* every other key as it was, and a call of isAllowed on a key is refused
\* only when that key itself has MaxRequests admitted calls in its window.
C12_KeysAreIndependent ==
    [][/\ \A k \in Keys :
            (IsCallOn(k) \/ (IsGetRemaining /\ rlLast'.key = k)) =>
                \A k2 \in Keys \ {k} :
                    EntryOf(requests', k2) = EntryOf(requests, k2)
       /\ \A k \in Keys :
            (IsCallOn(k) /\ ~rlTrace'[Len(rlTrace')].allowed) =>
                /\ k \in DOMAIN requests
                /\ Cardinality(AdmittedInWindow(k)) >= MaxRequests
      ]_vars

\* One key has been refused at its cap and, at the same instant, a call on
\* another key was admitted and opened that key's own window.
C12_Witness ==
    \E i, j \in 1..Len(rlTrace) :
        /\ i < j
        /\ rlTrace[i].key # rlTrace[j].key
        /\ ~rlTrace[i].allowed
        /\ rlTrace[j].allowed
        /\ rlTrace[j].at = rlTrace[i].at
        /\ j = Len(rlTrace)
        /\ rlTrace[i].key \in DOMAIN requests
        /\ requests[rlTrace[i].key].count = MaxRequests
        /\ rlTrace[j].key \in DOMAIN requests
        /\ requests[rlTrace[j].key].count = 1

\* C13: a run of the sweep leaves exactly the entries whose window has not
\* passed, each as it was.
C13_SweepRemovesExactlyExpired ==
    [][IsSweep =>
          /\ DOMAIN requests' = {k \in DOMAIN requests : LiveEntry(k)}
          /\ \A k \in DOMAIN requests' : requests'[k] = requests[k]
      ]_vars

\* The sweep has just run with one key expired and another live: the first
\* is gone and the second is still stored.
C13_Witness ==
    /\ rlLast.op = "cleanup"
    /\ rlLast.at = now
    /\ \E i, j \in 1..Len(rlTrace) :
          /\ rlTrace[i].key \notin DOMAIN requests
          /\ rlTrace[i].at + WindowMs < now
          /\ rlTrace[j].key \in DOMAIN requests
          /\ rlTrace[j].at <= now
          /\ now <= requests[rlTrace[j].key].resetTime

-----------------------------------------------------------------------------
(* Properties of the results of handleFAQ *)

\* Invocation r has returned {answer, matches}.
HasResult(r) == faq[r].pc = "done" /\ faq[r].outcome = "result"

\* Number of corpus texts to which the fallback gives the query a score > 0.
ScoringTexts(query) ==
    Cardinality({i \in 1..Len(FALLBACK_CORPUS) :
        ScorePositive(FallbackScore(SplitWhiteSpace(ToLowerCase(query)),
                                    CorpusTerms[i]))})

\* C14: whichever path produced them, the matches of an invocation are never
\* more than TopK.
C14_AtMostTopKMatches ==
    \A r \in Slots : Len(faq[r].matches) <= TopK

\* A result from the fallback holds exactly TopK matches although more than
\* TopK corpus texts score above 0 for its query.
C14_Witness ==
    \E r \in Slots :
        /\ HasResult(r)
        /\ faq[r].via \in {"fallback", "catch"}
        /\ Len(faq[r].matches) = TopK
        /\ ScoringTexts(faq[r].query) > TopK

\* The terms of a query: query.toLowerCase().split(/\s+/).
QueryTerms(query) == SplitWhiteSpace(ToLowerCase(query))

\* The score of every corpus text for a query.
ChunkScores(query) ==
    [i \in 1..Len(FALLBACK_CORPUS) |->
        FallbackScore(QueryTerms(query), CorpusTerms[i])]

\* Position in the corpus of one of its texts.
CorpusIndex(text) ==
    CHOOSE i \in 1..Len(FALLBACK_CORPUS) : FALLBACK_CORPUS[i] = text

\* Text i ranks before text j: its score is higher, or the scores are equal
\* and it comes first in the corpus.
RanksBefore(sc, i, j) ==
    \/ ScoreGt(sc[i], sc[j])
    \/ ~ScoreGt(sc[j], sc[i]) /\ i < j

\* The two scores are the same number.
ScoreEq(a, b) == a.num * b.den = b.num * a.den

\* Invocation r holds the result of the fallback search for its query.
HoldsFallbackResult(r) ==
    faq[r].pc \in {"searched", "done"} /\ faq[r].via \in {"fallback", "catch"}

\* C15: the fallback search returns at most TopK matches, all with a score
\* above 0 and in descending order of score, equal scores in corpus order,
\* and they are the top-ranked texts under that order: the p-th match is
\* the text that has exactly p - 1 scoring texts ranked before it.
C15_FallbackReturnsTopRanked ==
    \A r \in Slots : HoldsFallbackResult(r) =>
        LET ms == faq[r].matches
            sc == ChunkScores(faq[r].query)
            pos == {i \in DOMAIN sc : ScorePositive(sc[i])}
            at == [p \in 1..Len(ms) |-> CorpusIndex(ms[p].text)]
        IN /\ Len(ms) = Min(TopK, Cardinality(pos))
           /\ \A p \in 1..Len(ms) :
                 /\ ScorePositive(ms[p].score)
                 /\ at[p] \in pos
                 /\ Cardinality({j \in pos : RanksBefore(sc, j, at[p])})
                        = p - 1
           /\ \A p, q \in 1..Len(ms) : p < q =>
                 \/ ScoreGt(ms[p].score, ms[q].score)
                 \/ ScoreEq(ms[p].score, ms[q].score) /\ at[p] < at[q]

\* A result whose first text is not the first of the corpus, whose second
\* and third tie and stand in corpus order, and which left a scoring text
\* out.
C15_Witness ==
    \E r \in Slots :
        /\ HoldsFallbackResult(r)
        /\ Len(faq[r].matches) = TopK
        /\ ScoringTexts(faq[r].query) > TopK
        /\ CorpusIndex(faq[r].matches[1].text) > 1
        /\ ScoreGt(faq[r].matches[1].score, faq[r].matches[2].score)
        /\ ScoreEq(faq[r].matches[2].score, faq[r].matches[3].score)
        /\ CorpusIndex(faq[r].matches[2].text)
              < CorpusIndex(faq[r].matches[3].text)

\* "medication adherence diabetes"
QueryMedAdhDia == JoinWords(<<WordMedication, WordAdherence, WordDiabetes>>)

\* Positions of the terms of the query that are a substring of, or contain
\* as a substring, some lowercased whitespace token of corpus text i.
MatchedTerms(query, i) ==
    LET terms == QueryTerms(query)
        tokens == CorpusTerms[i]
    IN {k \in 1..Len(terms) :
           \E j \in 1..Len(tokens) :
               \/ Includes(tokens[j], terms[k])
               \/ Includes(terms[k], tokens[j])}

\* C16: the score of every match of the fallback search is the number of
\* matched query terms over the number of query terms, hence between 0 and
\* 1; "medication adherence diabetes" scores 1 on the first corpus text,
\* which comes first, and "medication zzxxyy" scores 1/2 on a text that
\* contains "medication".
C16_ScoreIsMatchedOverTotal ==
    \A r \in Slots : HoldsFallbackResult(r) =>
        LET ms == faq[r].matches
            q == faq[r].query
            total == Len(QueryTerms(q))
        IN /\ \A p \in 1..Len(ms) :
                 /\ ms[p].score.den = total
                 /\ ms[p].score.num =
                        Cardinality(MatchedTerms(q, CorpusIndex(ms[p].text)))
                 /\ 0 <= ms[p].score.num
                 /\ ms[p].score.num <= ms[p].score.den
           /\ q = QueryMedAdhDia =>
                 /\ Len(ms) > 0
                 /\ ms[1].text = Corpus1
                 /\ ScoreEq(ms[1].score, Score(1, 1))
           /\ q = QueryMedicationZz =>
                 \E p \in 1..Len(ms) :
                     /\ Includes(ToLowerCase(ms[p].text), WordMedication)
                     /\ ScoreEq(ms[p].score, Score(1, 2))

\* The fallback result for "medication adherence diabetes": the first
\* corpus text on top with score 1, and below it a match that owes its score
\* to a token of the text contained in the query terms.
C16_Witness ==
    \E r \in Slots :
        /\ HoldsFallbackResult(r)
        /\ faq[r].query = QueryMedAdhDia
        /\ faq[r].matches[1].text = Corpus1
        /\ faq[r].matches[1].score = Score(3, 3)
        /\ \E p \in 2..Len(faq[r].matches) :
              /\ ScoreEq(faq[r].matches[p].score, Score(1, 1))
              /\ ~Includes(ToLowerCase(faq[r].matches[p].text),
                           WordMedication)

\* C17 as stated: a result with exactly one match has that match's text as
\* its answer, in every mode of the instance.
C17_Orig_SingleMatchVerbatim ==
    \A r \in Slots :
        (HasResult(r) /\ Len(faq[r].matches) = 1) =>
            faq[r].answer = faq[r].matches[1].text

\* C18 as stated: with two or more matches nothing is raised, and unless
\* the completion call gave content the answer is the top match's text
\* followed by the fixed suffix.
C18_Orig_DeterministicWhenNoContent ==
    \A r \in Slots :
        /\ faq[r].outcome # "raised"
        /\ (HasResult(r) /\ Len(faq[r].matches) >= 2
               /\ faq[r].chat # "content") =>
              faq[r].answer = faq[r].matches[1].text \o ConsultSuffix

\* C19: a result without matches has the fixed no-information answer, and
\* the fallback search finds no match for "zzxxyy nonexistent".
C19_NoMatchGivesDisclaimer ==
    \A r \in Slots :
        /\ (HasResult(r) /\ Len(faq[r].matches) = 0) =>
              faq[r].answer = NoInformationAnswer
        /\ (HoldsFallbackResult(r) /\ faq[r].query = QueryNoMatch) =>
              faq[r].matches = << >>

\* handleFAQ("zzxxyy nonexistent") has returned from the fallback with no
\* match and the no-information answer.
C19_Witness ==
    \E r \in Slots :
        /\ HasResult(r)
        /\ faq[r].via \in {"fallback", "catch"}
        /\ faq[r].query = QueryNoMatch
        /\ faq[r].matches = << >>
        /\ faq[r].answer = NoInformationAnswer

\* C20 as stated: every request in flight eventually has its response,
\* even when an external service never answers.
C20_Orig_EveryRequestCompletes ==
    \A r \in Slots : InFlight(r) ~> (faq[r].pc = "done")

-----------------------------------------------------------------------------
(* Interaction rules *)

\* "warfarin"
DrugWarfarin ==
    <<"w", "a", "r", "f", "a", "r", "i", "n">>

\* "ibuprofen"
DrugIbuprofen ==
    <<"i", "b", "u", "p", "r", "o", "f", "e", "n">>

\* "metformin"
DrugMetformin ==
    <<"m", "e", "t", "f", "o", "r", "m", "i", "n">>

\* "contrast dye"
DrugContrastDye ==
    <<"c", "o", "n", "t", "r", "a", "s", "t", " ", "d", "y", "e">>

\* "lisinopril"
DrugLisinopril ==
    <<"l", "i", "s", "i", "n", "o", "p", "r", "i", "l">>

\* "spironolactone"
DrugSpironolactone ==
    <<"s", "p", "i", "r", "o", "n", "o", "l", "a", "c", "t", "o", "n", "e">>

INTERACTION_RULES ==
    << [drugs |-> <<DrugWarfarin, DrugIbuprofen>>, risky |-> TRUE,
        reason |-> "increased bleeding risk"],
       [drugs |-> <<DrugMetformin, DrugContrastDye>>, risky |-> TRUE,
        reason |-> "lactic acidosis risk around imaging contrast"],
       [drugs |-> <<DrugLisinopril, DrugSpironolactone>>, risky |-> TRUE,
        reason |-> "hyperkalemia risk"] >>

\* findInteraction(medA, medB): the first rule whose two drugs are the two
\* names, lowercased and trimmed, in either order; << >> stands for null.
findInteraction(medA, medB) ==
    LET normalizedA == Trim(ToLowerCase(medA))
        normalizedB == Trim(ToLowerCase(medB))
        Matches(rule) ==
            LET drug1 == ToLowerCase(rule.drugs[1])
                drug2 == ToLowerCase(rule.drugs[2])
            IN \/ drug1 = normalizedA /\ drug2 = normalizedB
               \/ drug1 = normalizedB /\ drug2 = normalizedA
        hits == {i \in 1..Len(INTERACTION_RULES) : Matches(INTERACTION_RULES[i])}
    IN IF hits = {} THEN << >>
       ELSE <<INTERACTION_RULES[CHOOSE i \in hits : \A j \in hits : i <= j]>>

\* checkInteraction(medA, medB)
checkInteraction(medA, medB) ==
    LET interaction == findInteraction(medA, medB) IN
    IF interaction # << >>
    THEN [pair |-> <<medA, medB>>,
          isPotentiallyRisky |-> interaction[1].risky,
          reason |-> interaction[1].reason]
    ELSE [pair |-> <<medA, medB>>,
          isPotentiallyRisky |-> FALSE,
          reason |-> "No known interaction found"]

-----------------------------------------------------------------------------
(* POST /api/interactions and /api/history *)

MIN_MEDICATION_LENGTH == 1
MAX_MEDICATION_LENGTH == 100

Digits == {"0", "1", "2", "3", "4", "5", "6", "7", "8", "9"}

\* The characters /^[a-zA-Z0-9\s\-\.]+$/ admits.
MedicationChars ==
    {LowerCase[i] : i \in 1..Len(LowerCase)}
        \cup {UpperCase[i] : i \in 1..Len(UpperCase)}
        \cup Digits \cup WhiteSpace \cup {"-", "."}

\* VALIDATION_PATTERNS.MEDICATION_NAME.test(str)
MEDICATION_NAME(str) ==
    /\ Len(str) >= 1
    /\ \A i \in 1..Len(str) : str[i] \in MedicationChars

\* One field of InteractionRequestSchema applied to a field of the body
\* (<< >> when the field is absent or not a string): the length checks see
\* the string as sent, the pattern sees it trimmed, and the trimmed string
\* is the parsed value.
parseMedication(field) ==
    IF field = << >> THEN [ok |-> FALSE, value |-> << >>]
    ELSE LET str == field[1]
             trimmed == Trim(str)
         IN IF \/ Len(str) < MIN_MEDICATION_LENGTH
               \/ Len(str) > MAX_MEDICATION_LENGTH
               \/ ~MEDICATION_NAME(trimmed)
            THEN [ok |-> FALSE, value |-> << >>]
            ELSE [ok |-> TRUE, value |-> trimmed]

\* Mutant: a pair that differs only in case and surrounding white space is
\* checked and stored like any other.
postOutcome_StoresDuplicates(body) ==
    IF ~body.json THEN [status |-> 500, added |-> << >>]
    ELSE LET a == parseMedication(body.medA)
             b == parseMedication(body.medB)
         IN IF ~a.ok \/ ~b.ok THEN [status |-> 400, added |-> << >>]
            ELSE LET result == checkInteraction(a.value, b.value) IN
                 [status |-> 200,
                  added |-> <<[medA |-> a.value, medB |-> b.value,
                               isPotentiallyRisky |-> result.isPotentiallyRisky,
                               reason |-> result.reason]>>]

\* POST from `await request.json()` on: the status of the response and the
\* arguments of the addQuery call made on the way, if one is made.  A body
\* that is not JSON makes request.json() reject, which the catch block
\* answers with 500; a ZodError is answered with 400.
postOutcome(body) ==
    IF ~body.json THEN [status |-> 500, added |-> << >>]
    ELSE LET a == parseMedication(body.medA)
             b == parseMedication(body.medB)
         IN IF ~a.ok \/ ~b.ok THEN [status |-> 400, added |-> << >>]
            ELSE IF Trim(ToLowerCase(a.value)) = Trim(ToLowerCase(b.value))
            THEN [status |-> 400, added |-> << >>]
            ELSE LET result == checkInteraction(a.value, b.value) IN
                 [status |-> 200,
                  added |-> <<[medA |-> a.value, medB |-> b.value,
                               isPotentiallyRisky |-> result.isPotentiallyRisky,
                               reason |-> result.reason]>>]

\* Request bodies.

\* "Warfarin "
MedWarfarinPadded ==
    <<"W", "a", "r", "f", "a", "r", "i", "n", " ">>

\* "aspirin"
MedAspirin ==
    <<"a", "s", "p", "i", "r", "i", "n">>

\* " Aspirin"
MedAspirinPadded ==
    <<" ", "A", "s", "p", "i", "r", "i", "n">>

\* "vitamin c"
MedVitaminC ==
    <<"v", "i", "t", "a", "m", "i", "n", " ", "c">>

\* "war\rfarin": a carriage return inside the name.
MedCarriageReturn ==
    <<"w", "a", "r", "\r", "f", "a", "r", "i", "n">>

\* "war@farin"
MedBadChar ==
    <<"w", "a", "r", "@", "f", "a", "r", "i", "n">>

\* A name of MAX_MEDICATION_LENGTH + 1 letters.
MedTooLong == [i \in 1..(MAX_MEDICATION_LENGTH + 1) |-> "a"]

JsonBody(a, b) == [json |-> TRUE, medA |-> a, medB |-> b]

RouteBodies ==
    { [json |-> FALSE, medA |-> << >>, medB |-> << >>],
      JsonBody(<<MedWarfarinPadded>>, <<DrugIbuprofen>>),
      JsonBody(<<MedCarriageReturn>>, <<MedVitaminC>>),
      JsonBody(<<MedAspirinPadded>>, <<MedAspirin>>),
      JsonBody(<<MedBadChar>>, <<MedAspirin>>),
      JsonBody(<<MedAspirin>>, <<QueryBlank>>),
      JsonBody(<< << >> >>, <<MedAspirin>>),
      JsonBody(<<MedAspirin>>, << >>),
      JsonBody(<<MedTooLong>>, <<MedAspirin>>) }

\* Largest number of requests that reach the rate limiter.
MaxRouteCalls == 3

\* Largest clock value while the routes are exercised.
MaxRouteTime == 1

\* No response built in one synchronous run (a 429 or 400 of GET /api/faq,
\* any response of POST, the body of GET /api/history) is waiting to be sent.
RoutesQuiet ==
    /\ Quiet
    /\ \A r \in Slots : post[r].pc # "done"
    /\ returned = << >>

\* A request reaches a route in a turn of its own.
RoutesTurnOver == RoutesQuiet /\ TurnOver

\* A new POST takes the lowest free slot.
PostTakesSlot(r) ==
    /\ post[r].pc = "idle"
    /\ \A x \in Slots : x < r => post[x].pc # "idle"

\* POST(request) up to `await request.json()`: the rate limit check.
PostInteractions(r, ip, body) ==
    /\ Len(rlTrace) < MaxRouteCalls
    /\ PostTakesSlot(r)
    /\ LET a == isAllowed(requests, ip, now) IN
        /\ requests' = a.requests
        /\ rlTrace' = Append(rlTrace,
                             [key |-> ip, at |-> now, allowed |-> a.allowed])
        /\ post' = [post EXCEPT ![r] =
                      IF ~a.allowed
                      THEN [IdlePost EXCEPT !.pc = "done", !.status = 429,
                                            !.retryAfter = RetryAfter]
                      ELSE [IdlePost EXCEPT !.pc = "reading", !.body = body,
                                            !.ticket = Len(rlTrace) + 1]]
    /\ UNCHANGED <<now, rlLast, histVars, env, svc, faq, warned>>

\* POST(request) from `await request.json()` to its response.
PostBodyRead(r) ==
    /\ post[r].pc = "reading"
    /\ LET o == postOutcome(post[r].body) IN
        /\ post' = [post EXCEPT ![r] =
                      [post[r] EXCEPT !.pc = "done", !.body = NoBody,
                                      !.status = o.status]]
        /\ IF o.added # << >>
           THEN \E t2 \in now..Max(now, MaxRouteTime) :
                   StoreQuery(o.added[1], t2)
           ELSE UNCHANGED <<now, histVars>>
    /\ UNCHANGED <<rlVars, env, svc, faq, warned>>

\* The response of a POST is sent.
PostDeliver(r) ==
    /\ post[r].pc = "done"
    /\ post' = [post EXCEPT ![r] = IdlePost]
    /\ UNCHANGED <<now, rlVars, histVars, env, svc, faq, warned>>

\* GET /api/history for a client at address ip (the handler takes no
\* request and reads no header); the array goes into the response body.
GetHistory(ip) == GetRecentQueriesCall

\* DELETE /api/history for a client at address ip.
DeleteHistory(ip) == ClearHistoryCall

NextRoutes ==
    \/ \E r \in Slots : Deliver(r)
    \/ \E r \in Slots : PostDeliver(r)
    \/ Release
    \/ RoutesTurnOver /\ Len(rlTrace) < MaxRouteCalls
          /\ \E r \in Slots, ip \in ApiClients, q \in ApiQueries :
                GetFaq(r, ip, q, "ok")
    \/ RoutesQuiet /\ \E r \in Slots : Synthesize(r)
    \/ RoutesTurnOver /\ \E r \in Slots, ip \in ApiClients, body \in RouteBodies :
          PostInteractions(r, ip, body)
    \/ RoutesQuiet /\ \E r \in Slots : PostBodyRead(r)
    \/ RoutesTurnOver /\ \E ip \in ApiClients : GetHistory(ip)
    \/ RoutesTurnOver /\ \E ip \in ApiClients : DeleteHistory(ip)
    \/ now < MaxRouteTime /\ Tick

SpecRoutes == Init /\ [][NextRoutes]_vars

-----------------------------------------------------------------------------
(* Properties of construction and of the endpoints *)

\* The step is new FAQSearchService() on the long-lived instance.
IsConstruct == ~svc[0].constructed /\ svc'[0] # svc[0]

\* C21: construction always yields an instance; the instance starts with
\* useFallback = false only if both keys are set and both clients were
\* built, and with useFallback = true in every other case.
C21_VectorReadyOnlyWithBothClients ==
    [][IsConstruct =>
          /\ svc'[0].constructed
          /\ ~svc'[0].useFallback <=>
                (/\ env.pineconeKey /\ env.openaiKey
                 /\ svc'[0].pinecone /\ svc'[0].openai)
      ]_vars

\* With both keys set the OpenAI client could not be built: the instance
\* exists, holds the Pinecone client only, and is in fallback mode without
\* having served a call.
C21_Witness ==
    /\ env.pineconeKey /\ env.openaiKey
    /\ svc[0].constructed
    /\ svc[0].pinecone /\ ~svc[0].openai
    /\ svc[0].useFallback
    /\ \A r \in Slots : Free(r)
    /\ ~warned

\* The step is a request that the rate limiter refuses.
IsRefusal ==
    /\ Len(rlTrace') = Len(rlTrace) + 1
    /\ ~rlTrace'[Len(rlTrace')].allowed

\* Slot r of faq holds a 429 response and nothing of a search or synthesis.
FaqRefused(c) ==
    /\ c.pc = "done" /\ c.status = 429 /\ c.retryAfter = RetryAfter
    /\ c.outcome = "refused" /\ c.via = "none" /\ c.chat = "none"
    /\ c.matches = << >> /\ c.answer = << >>

\* Slot r of post holds a 429 response.
PostRefused(p) ==
    /\ p.pc = "done" /\ p.status = 429 /\ p.retryAfter = RetryAfter
    /\ p.ticket = 0

\* C22: a request refused by the rate limiter, on GET /api/faq or on
\* POST /api/interactions, is answered 429 with Retry-After and changes no
\* state outside the limiter: no service is built, no search or synthesis
\* runs, no instance changes mode, nothing is logged, the history is as it
\* was, and no other request in flight is touched.
C22_RefusalTouchesOnlyLimiter ==
    [][IsRefusal =>
          /\ UNCHANGED <<histVars, svc, env, warned>>
          /\ \E r \in Slots :
                \/ /\ Free(r) /\ FaqRefused(faq'[r])
                   /\ \A x \in Slots \ {r} : faq'[x] = faq[x]
                   /\ post' = post
                \/ /\ post[r].pc = "idle" /\ PostRefused(post'[r])
                   /\ \A x \in Slots \ {r} : post'[x] = post[x]
                   /\ faq' = faq
      ]_vars

\* A POST was refused while the history holds an item and another POST,
\* admitted earlier, is still reading its body.
C22_Witness ==
    /\ history # << >>
    /\ \E r, x \in Slots : PostRefused(post[r]) /\ post[x].pc = "reading"

\* Client ip has used up its quota in the window that is open for it.
AtCap(ip) == LiveEntry(ip) /\ requests[ip].count >= MaxRequests

\* The step is /api/history doing its work: GET hands out the log, or
\* DELETE empties it.
HistoryServed ==
    \/ returned = << >> /\ returned' # << >>
    \/ history # << >> /\ history' = << >>

\* C23 (as claimed): every endpoint consults the rate limiter before doing
\* its work, so while a client is at its cap no request of that client is
\* served by /api/history (GET or DELETE) either.
C23_Orig_EveryEndpointRateLimited ==
    [][\A ip \in ApiClients : AtCap(ip) => ~HistoryServed]_vars

\* C24 (as claimed): the tokenizer gives an empty query, or one of white
\* space only, no empty-string term, so no corpus text is matched through
\* one and the fallback search finds nothing for such a query.
C24_Orig_EmptyQueryHasNoTerms ==
    \A r \in Slots :
        HoldsFallbackResult(r) /\ Trim(faq[r].query) = << >> =>
            /\ \A i \in DOMAIN QueryTerms(faq[r].query) :
                  QueryTerms(faq[r].query)[i] # << >>
            /\ faq[r].matches = << >>

\* C25 (as claimed): the items in the history log have pairwise distinct
\* ids at all times, two additions within one clock value included.
C25_Orig_IdsPairwiseDistinct ==
    \A i, j \in 1..Len(history) :
        i # j => heap[history[i]].id # heap[history[j]].id

-----------------------------------------------------------------------------
(* The limiter with and without its sweep *)

\* The map a limiter that is never swept holds after the first n calls of
\* the trace.
RECURSIVE Replay(_)
Replay(n) ==
    IF n = 0 THEN << >>
    ELSE isAllowed(Replay(n - 1), rlTrace[n].key, rlTrace[n].at).requests

\* C26: whatever sweeps have run in between, every isAllowed call returns
\* what the limiter that is never swept returns for it, and every
\* getRemaining call reads the value that limiter gives; a sweep is a step
\* of its own, never taken while an isAllowed call is being evaluated.
C26_SweepIsUnobservable ==
    [][/\ \A k \in Keys : IsCallOn(k) =>
            rlTrace'[Len(rlTrace')].allowed
                = isAllowed(Replay(Len(rlTrace)), k, now).allowed
       /\ IsGetRemaining =>
            rlLast'.value
                = getRemaining(Replay(Len(rlTrace)), rlLast'.key, now).value
       /\ IsSweep => rlTrace' = rlTrace
      ]_vars

\* A sweep removed an entry that the limiter without sweeps still holds,
\* and a call on that key was answered afterwards.
C26_Witness ==
    /\ rlLast.op = "cleanup"
    /\ \E i \in 1..Len(rlTrace) :
          /\ rlTrace[i].at > rlLast.at
          /\ \E j \in 1..(i - 1) : rlTrace[j].key = rlTrace[i].key
    /\ \E k \in DOMAIN Replay(Len(rlTrace)) : k \notin DOMAIN requests

\* The clock stands exactly at the end of the window of key k.
AtBoundary(k) == k \in DOMAIN requests /\ now = requests[k].resetTime

\* The window of key k has passed.
PastBoundary(k) == k \in DOMAIN requests /\ now > requests[k].resetTime

\* C27: at now = resetTime the entry is live: isAllowed counts the call
\* against the old window (or refuses it at the cap) and keeps resetTime,
\* getRemaining answers from the stored count, and the sweep keeps the
\* entry.  Only at now > resetTime does isAllowed open a new window,
\* getRemaining answer the full cap and the sweep drop the entry.
C27_ExpiryIsStrict ==
    [][\A k \in Keys :
        /\ (AtBoundary(k) /\ IsCallOn(k)) =>
              /\ rlTrace'[Len(rlTrace')].allowed
                    = (requests[k].count < MaxRequests)
              /\ requests'[k].resetTime = requests[k].resetTime
              /\ requests'[k].count =
                    IF requests[k].count < MaxRequests
                    THEN requests[k].count + 1 ELSE requests[k].count
        /\ (AtBoundary(k) /\ IsGetRemaining /\ rlLast'.key = k) =>
              rlLast'.value = Max(0, MaxRequests - requests[k].count)
        /\ (AtBoundary(k) /\ IsSweep) =>
              k \in DOMAIN requests' /\ requests'[k] = requests[k]
        /\ (PastBoundary(k) /\ IsCallOn(k)) =>
              /\ rlTrace'[Len(rlTrace')].allowed
              /\ requests'[k] = [count |-> 1, resetTime |-> now + WindowMs]
        /\ (PastBoundary(k) /\ IsGetRemaining /\ rlLast'.key = k) =>
              rlLast'.value = MaxRequests
        /\ (PastBoundary(k) /\ IsSweep) => k \notin DOMAIN requests'
      ]_vars

\* A call made exactly at the end of the window of its key was refused,
\* the key being at its cap, and the sweep has run at that instant and kept
\* the entry.
C27_Witness ==
    /\ rlTrace # << >>
    /\ LET c == rlTrace[Len(rlTrace)] IN
          /\ ~c.allowed
          /\ c.at = now
          /\ AtBoundary(c.key)
          /\ requests[c.key].count = MaxRequests
    /\ rlLast.op = "cleanup"
    /\ rlLast.at = now

-----------------------------------------------------------------------------
(* Order of the checks in the handlers *)

\* The POST in slot r was admitted by the isAllowed call its ticket names.
Ticketed(r) ==
    /\ post[r].ticket \in 1..Len(rlTrace)
    /\ rlTrace[post[r].ticket].allowed

\* C28: the rate limit check comes before validation.  A request answered
\* 400 has been admitted by isAllowed, which counted it (GET /api/faq in
\* the same step, POST /api/interactions in the step before it read its
\* body); and a request of a client at its cap is answered 429, whatever
\* its q or body, never 400.
C28_RateCheckBeforeValidation ==
    [][\A r \in Slots :
        /\ (Free(r) /\ faq'[r].status = 400) =>
              \E ip \in ApiClients :
                 /\ IsAdmittedCallOn(ip)
                 /\ requests'[ip].count =
                       IF LiveEntry(ip) THEN requests[ip].count + 1 ELSE 1
        /\ (post[r].pc = "idle" /\ post'[r].pc = "reading") =>
              /\ Ticketed(r)'
              /\ \E ip \in ApiClients :
                    /\ IsAdmittedCallOn(ip)
                    /\ requests'[ip].count =
                          IF LiveEntry(ip) THEN requests[ip].count + 1 ELSE 1
        /\ (post[r].pc = "reading" /\ post'[r].status = 400) => Ticketed(r)
        /\ (post[r].pc = "idle" /\ post'[r].pc = "done") =>
              post'[r].status = 429
        /\ \A ip \in ApiClients :
              (AtCap(ip) /\ IsCallOn(ip)) =>
                 /\ \A x \in Slots : Free(x) /\ ~Free(x)' =>
                       faq'[x].status = 429
                 /\ \A x \in Slots : post[x].pc = "idle" /\ post'[x].pc # "idle"
                       => post'[x].status = 429
      ]_vars

\* A POST with an invalid body was answered 400 after it had taken the last
\* unit of its client's quota: the client is at its cap.
C28_Witness ==
    \E r \in Slots :
        /\ post[r].pc = "done" /\ post[r].status = 400
        /\ Ticketed(r)
        /\ rlTrace[post[r].ticket].key = "ip1"
        /\ AtCap("ip1")
        /\ requests["ip1"].count = MaxRequests

\* The step is the POST in slot r going from its body to its response.
IsPostAnswer(r) == post[r].pc = "reading" /\ post'[r].pc = "done"

\* The two names of the body are strings that are equal once lowercased
\* and trimmed.
SameMedication(body) ==
    /\ body.json /\ body.medA # << >> /\ body.medB # << >>
    /\ Trim(ToLowerCase(body.medA[1])) = Trim(ToLowerCase(body.medB[1]))

\* C30: a POST answered 200 puts exactly one item at the front of the
\* history, holding the two parsed names and the result of the check; a
\* POST answered 429, 400 or 500 leaves the history as it was, and a body
\* whose two names are equal ignoring case and surrounding white space is
\* never answered 200.  Nothing but a POST answered 200 adds an item.
C30_OneItemPerAnsweredPost ==
    [][/\ \A r \in Slots :
          /\ IsPostAnswer(r) =>
                /\ post'[r].status \in {200, 400, 500}
                /\ SameMedication(post[r].body) => post'[r].status = 400
                /\ ~post[r].body.json => post'[r].status = 500
                /\ post'[r].status = 200 =>
                      /\ nAdds' = nAdds + 1
                      /\ Len(history') = Min(Len(history) + 1, MaxItems)
                      /\ SubSeq(history', 2, Len(history'))
                            = SubSeq(history, 1, Len(history') - 1)
                      /\ LET item == heap'[history'[1]]
                             a == Trim(post[r].body.medA[1])
                             b == Trim(post[r].body.medB[1])
                         IN /\ item.medA = a /\ item.medB = b
                            /\ item.isPotentiallyRisky
                                  = checkInteraction(a, b).isPotentiallyRisky
                            /\ item.reason = checkInteraction(a, b).reason
                /\ post'[r].status # 200 => UNCHANGED histVars
          /\ (post[r].pc = "idle" /\ post'[r].status = 429) =>
                UNCHANGED histVars
       /\ nAdds' # nAdds =>
             \E r \in Slots : IsPostAnswer(r) /\ post'[r].status = 200
      ]_vars

\* Two POSTs were answered 200 and the history holds their two items, the
\* risky pair "Warfarin" / "ibuprofen" in front; a third POST was refused.
C30_Witness ==
    /\ nAdds = 2
    /\ Len(history) = 2
    /\ heap[history[1]].medA = Trim(MedWarfarinPadded)
    /\ heap[history[1]].medB = DrugIbuprofen
    /\ heap[history[1]].isPotentiallyRisky
    /\ ~heap[history[2]].isPotentiallyRisky
    /\ \E r \in Slots : post[r].pc = "done" /\ post[r].status = 429

-----------------------------------------------------------------------------
(* External calls in fallback mode *)

\* The step issues an external call for the invocation in slot r: the
\* embedding call, the index query or the completion call.
IssuesExternalCall(r) ==
    /\ faq'[r].pc \in {"embedding", "querying", "synthesizing"}
    /\ faq'[r].pc # faq[r].pc

\* The answer of the deterministic synthesis for a query answered from the
\* fallback corpus.
FallbackAnswer(query) ==
    LET ms == searchWithFallback(query) IN
    IF Len(ms) = 0 THEN NoInformationAnswer ELSE simpleSynthesis(ms)

\* The invocation in slot r, if it was answered from the fallback corpus,
\* holds the fallback result of its query, has made no completion call, and
\* once finished carries the deterministic answer; its instance is in
\* fallback mode.
LocalResult(r) ==
    faq[r].via \in {"fallback", "catch"} =>
        /\ svc[0].constructed /\ svc[0].useFallback
        /\ faq[r].chat = "none"
        /\ faq[r].pc \in {"searched", "done"}
        /\ faq[r].matches = searchWithFallback(faq[r].query)
        /\ faq[r].pc = "done" => faq[r].answer = FallbackAnswer(faq[r].query)

\* C29 (as claimed): once the instance is in fallback mode no handleFAQ call
\* on it issues an embedding, index or completion call.
C29_Orig_NoExternalCallInFallbackMode ==
    [][\A r \in Slots :
          (svc[0].constructed /\ svc[0].useFallback) => ~IssuesExternalCall(r)
      ]_vars

\* C29 amended: a handleFAQ call that starts while the instance is in
\* fallback mode, and the call whose own vector search failed, issue no
\* external call from then on, the synthesis step included; their matches
\* are the fallback result of their query and their answer is the
\* deterministic synthesis of it.
\* (Every state in which such a call is in flight or finished has a next
\* step, Synthesize or Deliver, so the condition on the state is checked in
\* all of them.)
C29_FallbackCallsAreLocal ==
    [][\A r \in Slots :
        /\ (Free(r) /\ ~Free(r)' /\ svc[0].constructed /\ svc[0].useFallback)
              => faq'[r].via = "fallback"
        /\ faq[r].via \in {"fallback", "catch"} => ~IssuesExternalCall(r)
        /\ LocalResult(r)
      ]_vars

\* On an instance built with both clients, the call whose search failed has
\* been answered from the fallback corpus without a completion call, and a
\* call started after the downgrade holds the fallback result of its query.
C29_Witness ==
    \E r, x \in Slots :
        /\ svc[0].pinecone /\ svc[0].openai /\ svc[0].useFallback
        /\ faq[r].via = "catch" /\ faq[r].pc = "done"
        /\ Len(faq[r].matches) > 0
        /\ faq[r].answer = FallbackAnswer(faq[r].query)
        /\ faq[x].via = "fallback" /\ faq[x].pc = "searched"
        /\ faq[x].matches = searchWithFallback(faq[x].query)

=============================================================================
